---- MODULE Spec2Model ----
(***************************************************************************)
(* Model of the Go binding's graph-construction layer                      *)
(* (tensorflow/go/op/scope.go): a tree of Scope values that share a graph, *)
(* an error cell and - depending on the derivation - a name table.         *)
(*                                                                         *)
(* Pointers are indices into heaps: scopes, namemaps, errCells, arrays.    *)
(* Index 0 is the nil pointer.                                             *)
(***************************************************************************)
EXTENDS Integers, Sequences, FiniteSets, TLC

VARIABLES
    graphs,     \* graphs[g]: the operations of tf.Graph g, in insertion order
    scopes,     \* scopes[s]: the Scope struct *Scope s points to
    namemaps,   \* namemaps[m]: the opNameMap a Scope.namemap points to
    errCells,   \* errCells[c]: scopeErr.err of the cell a Scope.err points to
    arrays,     \* arrays[a]: backing array of a []*tf.Operation slice;
                \* arrays[1] is the slice the caller passes as ops...
    handed,     \* the OpSpecs passed to Graph.AddOperation so far, in order
    derived,    \* derived[s]: the call that created scope s and its arguments
    ret,        \* the last call made by the caller and its outcome
    tagmaps,    \* tagmaps[m]: the outTagMap a Scope.outTagMap points to
    tagged,     \* the (value, tag) pairs given to tagVariable so far, in order
    funcs,      \* funcs[f]: the runtime's TF_Function a *Func wraps
    libs,       \* libs[g]: the function table of tf.Graph g
    rtlog,      \* the calls into the runtime that made, copied, listed or
                \* serialized functions, in order
    writers,    \* the io.Writers given to Func.WriteTo so far, in order: the
                \* bytes each holds and what WriteTo returned
    stack,      \* the helper in progress (BuildFunc, OptimizerSGD) and its locals
    held,       \* the value the caller holds and calls methods on: a Shape,
                \* a DataType, or the tensors it writes
    files,      \* the files and buffers the calls read and write
    worker,     \* the package's cast worker (var worker workerObj)
    procs       \* procs[p]: the CastTensor call goroutine p is in, its
                \* arguments, locals and position

\* the tag registry
tagVars == <<tagmaps, tagged>>

\* the functions and the graphs' function tables
funcVars == <<funcs, libs, rtlog, writers>>

\* the values, files and cast worker outside the graphs under construction
auxVars == <<held, files, worker, procs>>

vars == <<graphs, scopes, namemaps, errCells, arrays, handed, derived, ret,
          tagVars, funcVars, stack, auxVars>>

----------------------------------------------------------------------------
(* Bounds of the exploration. *)

MaxCalls == 4       \* calls of one run that derive a scope, reach the graph
                    \* or record a tag
MaxDeps  == 1       \* operations given to one WithControlDependencies call

(* Inputs of the calls. *)

Nil == 0                                \* the nil *tf.Operation / nil pointer
Types == {"Add", "x"}                   \* OpSpec.Type values
Namespaces == {"Add", "x"}              \* SubScope arguments
Devices == {"", "/device:GPU:0"}        \* WithDevice arguments
GraphErrs == {"Invalid argument"}       \* failures reported by the runtime
HelperTypes ==                          \* types of the operations helpers add
    {"VariableV2", "Const", "Pack", "Reshape", "Max", "Mul", "Square", "Sum",
     "DivNoNan", "AssignSub", "NoOp", "Placeholder", "Mean", "L2Loss"}
NameKeys == Types \cup Namespaces \cup HelperTypes  \* keys of an opNameMap

----------------------------------------------------------------------------
(* Errors.  A Go error is nil or a value with a message; %w keeps the      *)
(* wrapped error.                                                          *)

NoErr == [nil |-> TRUE, msg |-> "", wraps |-> ""]

NewErr(msg, wraps) == [nil |-> FALSE, msg |-> msg, wraps |-> wraps]

\* fmt.Errorf("failed to add operation %q: %w (Stacktrace: %s)", op, err, ...)
AddOperationErr(op, err) ==
    NewErr("failed to add operation \"" \o op \o "\": " \o err.msg
               \o " (Stacktrace: ...)", err.msg)

\* fmt.Errorf("Scope has been finalized and is no longer usable")
FinalizedErr == NewErr("Scope has been finalized and is no longer usable", "")

----------------------------------------------------------------------------
(* Slices of *tf.Operation: a slice is (array, len, cap); the nil slice    *)
(* has no array.                                                           *)

NilSlice == [arr |-> 0, len |-> 0, cap |-> 0]

\* the elements a slice shows
Elems(h, sl) == IF sl.arr = 0 THEN << >> ELSE SubSeq(h[sl.arr].elems, 1, sl.len)

\* an array allocated for a slice of the given owner and contents
NewArray(owner, elems) == [owner |-> owner, elems |-> elems]

\* make([]*tf.Operation, 0, n)
MakeSlice(h, n) ==
    [heap  |-> Append(h, NewArray("scope", [i \in 1..n |-> Nil])),
     slice |-> [arr |-> Len(h) + 1, len |-> 0, cap |-> n]]

\* capacity Go's growslice picks for a slice of pointers (small sizes)
GrowCap(cap, needed) ==
    LET dbl == IF needed > 2 * cap THEN needed ELSE 2 * cap
    IN  IF dbl = 5 THEN 6 ELSE IF dbl = 7 THEN 8 ELSE IF dbl = 9 THEN 10 ELSE dbl

\* append(sl, vals...): in place when the capacity suffices, else a new array
AppendSlice(h, sl, vals) ==
    LET n == sl.len + Len(vals)
    IN  IF Len(vals) = 0 THEN [heap |-> h, slice |-> sl]
        ELSE IF n <= sl.cap
        THEN [heap  |-> [h EXCEPT ![sl.arr].elems =
                            [i \in 1..sl.cap |->
                                IF i > sl.len /\ i <= n THEN vals[i - sl.len]
                                ELSE @[i]]],
              slice |-> [sl EXCEPT !.len = n]]
        ELSE LET c == GrowCap(sl.cap, n)
             IN  [heap  |-> Append(h, NewArray("scope",
                                [i \in 1..c |->
                                    IF i <= sl.len THEN h[sl.arr].elems[i]
                                    ELSE IF i <= n THEN vals[i - sl.len]
                                    ELSE Nil])),
                  slice |-> [arr |-> Len(h) + 1, len |-> n, cap |-> c]]

----------------------------------------------------------------------------
(* The state after op.NewScope(). *)

EmptyNameMap == [k \in NameKeys |-> 0]      \* &opNameMap{}

\* the parameter tags
TagTrainable == "TagTrainable"
TagDecayL1 == "TagDecayL1"
TagDecayL2 == "TagDecayL2"
VarTags == {TagTrainable, TagDecayL1, TagDecayL2}

EmptyTagMap == [t \in VarTags |-> << >>]    \* &outTagMap{}

\* no helper is in progress
NoFrame == [fn |-> "", pc |-> "none", made |-> 0, helpers |-> 0]

NewScopeValue(graph, namemap, tagmap, err) ==
    [graph               |-> graph,
     namemap             |-> namemap,
     namespace           |-> "",
     controlDependencies |-> NilSlice,
     device              |-> "",
     outTagMap           |-> tagmap,
     err                 |-> err]

Derivation(kind, parent, name, ops, device) ==
    [kind |-> kind, parent |-> parent, name |-> name, ops |-> ops,
     device |-> device]

\* what a call record keeps of its receiver s: the error cell and the graph
\* s points to, and whether s is a root (0: a call without receiver)
Receiver(s) ==
    IF s = 0 THEN [err |-> 0, graph |-> 0, root |-> FALSE]
    ELSE [err |-> scopes[s].err, graph |-> scopes[s].graph,
          root |-> (derived[s].parent = 0)]

Called(call, s, outcome, op, graph, err, newScope, panicValue) ==
    [call |-> call, on |-> Receiver(s), outcome |-> outcome, op |-> op,
     graph |-> graph, err |-> err, newScope |-> newScope,
     panicValue |-> panicValue]

\* nothing held, no file, the worker's zero value, no goroutine
NoValue == [kind |-> "none"]
NoFiles == << >>
workerObj == [graph |-> 0, session |-> 0, castMap |-> << >>]
NoProcs == << >>

NothingElse ==
    /\ held = NoValue
    /\ files = NoFiles
    /\ worker = workerObj
    /\ procs = NoProcs

NewScope ==
    /\ graphs = << << >> >>
    /\ scopes = << NewScopeValue(1, 1, 1, 1) >>
    /\ namemaps = << EmptyNameMap >>
    /\ errCells = << NoErr >>
    /\ arrays = << NewArray("caller", [i \in 1..MaxDeps |-> Nil]) >>
    /\ handed = << >>
    /\ derived = << Derivation("NewScope", 0, "", << >>, "") >>
    /\ ret = Called("NewScope", 0, "return", Nil, 0, NoErr, 1, NoErr)
    /\ tagmaps = << EmptyTagMap >>
    /\ tagged = << >>
    /\ funcs = << >>
    /\ libs = << << >> >>
    /\ rtlog = << >>
    /\ writers = << >>
    /\ stack = NoFrame

Init == NewScope /\ NothingElse

\* the calls the caller made so far that derived a scope or handed an OpSpec
\* to the graph, the tags it recorded, the helpers it called (stack.made:
\* the calls the helpers made in its place), the graphs it created and its
\* calls that reached the runtime's function API
CallsMade ==
    (Len(scopes) - 1) + Len(handed) + Len(tagged) - stack.made + stack.helpers
        + (Len(graphs) - 1) + Len(rtlog)

----------------------------------------------------------------------------
(* Scope.Err and Scope.UpdateErr. *)

\* s.Err(): the error of the cell s shares with its tree
Err(s) == errCells[scopes[s].err]

\* UpdateErr without its nil check: the newest error replaces the first
UpdateErrCellOverwriting(cur, op, err) == AddOperationErr(op, err)

\* the value UpdateErr leaves in a cell holding cur: only a nil cell is written
UpdateErrCell(cur, op, err) ==
    IF cur = NoErr THEN AddOperationErr(op, err) ELSE cur

\* s.UpdateErr(op, err) called directly: records (first error only), then panics
UpdateErr(s, op, err) ==
    LET c == scopes[s].err
        e == UpdateErrCell(errCells[c], op, err)
    IN  /\ errCells' = [errCells EXCEPT ![c] = e]
        /\ ret' = Called("UpdateErr", s, "panic", Nil, 0, NoErr, 0, e)
        /\ UNCHANGED <<graphs, scopes, namemaps, arrays, handed, derived, tagVars, auxVars, funcVars>>

----------------------------------------------------------------------------
(* Graph.AddOperation of the runtime: appends the operation and returns    *)
(* its handle, or returns an error and leaves the graph as it was.  The    *)
(* runtime rejects what verdict says it rejects and any node name the      *)
(* graph already holds.                                                    *)

GraphAddOperation(g, args, verdict) ==
    IF verdict # NoErr
    THEN [graph |-> g, op |-> Nil, err |-> verdict]
    ELSE IF \E i \in 1..Len(g) : g[i].name = args.name
    THEN [graph |-> g, op |-> Nil,
          err |-> NewErr("Duplicate node name in graph: '" \o args.name \o "'", "")]
    ELSE [graph |-> Append(g, args), op |-> Len(g) + 1, err |-> NoErr]

\* the verdicts of the runtime on an OpSpec: accepted, or one of its errors
Verdicts == {NoErr} \cup {NewErr(e, "") : e \in GraphErrs}

----------------------------------------------------------------------------
(* Scope.AddOperation. *)

\* the opening check testing the cell pointer, s.err == nil, not its content
AddOperationChecksPointer(s) == scopes[s].err = 0

\* the check that opens AddOperation: s.Err() != nil
AddOperationReturnsEarly(s) == Err(s) # NoErr

\* auto-naming that leaves the counter out of the name
AutoNameWithoutCount(type, n) == type

\* fmt.Sprintf("%s_%d", args.Type, n)
AutoName(type, n) == type \o "_" \o ToString(n)

\* the name table and the name after the auto-naming step of AddOperation
NameOperation(nm, type, name) ==
    IF name = ""
    THEN LET nm1 == [nm EXCEPT ![type] = @ + 1]
         IN  [namemap |-> nm1, name |-> name \o AutoName(type, nm1[type])]
    ELSE [namemap |-> nm, name |-> name]

\* s.namespace + "/" + name, unless the namespace is empty
InNamespace(namespace, name) ==
    IF namespace # "" THEN namespace \o "/" \o name ELSE name

\* the OpSpec AddOperation passes to the graph for the scope value sc
ScopedOpSpec(sc, h, type, name, ownDeps) ==
    [type                |-> type,
     name                |-> InNamespace(sc.namespace, name),
     controlDependencies |-> ownDeps \o Elems(h, sc.controlDependencies),
     device              |-> sc.device]

AddOperation(s, type, name, ownDeps, verdict) ==
    IF AddOperationReturnsEarly(s)
    THEN /\ ret' = Called("AddOperation", s, "return", Nil, 0, NoErr, 0, NoErr)
         /\ UNCHANGED <<graphs, scopes, namemaps, errCells, arrays, handed, derived, tagVars, auxVars, funcVars>>
    ELSE LET sc    == scopes[s]
             named == NameOperation(namemaps[sc.namemap], type, name)
             args  == ScopedOpSpec(sc, arrays, type, named.name, ownDeps)
             r     == GraphAddOperation(graphs[sc.graph], args, verdict)
             e     == UpdateErrCell(errCells[sc.err], type, r.err)
         IN  /\ CallsMade < MaxCalls
             /\ namemaps' = [namemaps EXCEPT ![sc.namemap] = named.namemap]
             /\ graphs' = [graphs EXCEPT ![sc.graph] = r.graph]
             /\ handed' = Append(handed,
                    [scope |-> s, auto |-> (name = ""), ownDeps |-> ownDeps,
                     spec |-> args, err |-> r.err])
             /\ IF r.err # NoErr
                THEN /\ errCells' = [errCells EXCEPT ![sc.err] = e]
                     /\ ret' = Called("AddOperation", s, "panic", Nil, 0, NoErr, 0, e)
                ELSE /\ UNCHANGED errCells
                     /\ ret' = Called("AddOperation", s, "return", r.op, 0, NoErr, 0, NoErr)
             /\ UNCHANGED <<scopes, arrays, derived, tagVars, auxVars, funcVars>>

----------------------------------------------------------------------------
(* Scope.Finalize. *)

\* Finalize that hands out the graph without closing the scope
FinalizeCellLeftOpen(cur) == cur

\* the value Finalize leaves in the error cell when it returns the graph
FinalizeCell(cur) == FinalizedErr

Finalize(s) ==
    LET c == scopes[s].err
    IN  /\ IF Err(s) # NoErr
           THEN /\ ret' = Called("Finalize", s, "return", Nil, 0, Err(s), 0, NoErr)
                /\ UNCHANGED errCells
           ELSE /\ errCells' = [errCells EXCEPT ![c] = FinalizeCell(@)]
                /\ ret' = Called("Finalize", s, "return", Nil, scopes[s].graph,
                                 NoErr, 0, NoErr)
        /\ UNCHANGED <<graphs, scopes, namemaps, arrays, handed, derived, tagVars, auxVars, funcVars>>

----------------------------------------------------------------------------
(* Deriving scopes. *)

\* uniqueName that returns the first use of a name without a suffix
uniqueNameBareFirst(nm, name) ==
    [namemap |-> [nm EXCEPT ![name] = @ + 1],
     result  |-> IF nm[name] = 0 THEN name
                 ELSE name \o "_" \o ToString(nm[name])]

\* s.uniqueName(name) on the name table nm: the table after it and its result
uniqueName(nm, name) ==
    [namemap |-> [nm EXCEPT ![name] = @ + 1],
     result  |-> name \o "_" \o ToString(nm[name])]

\* SubScope that keeps the name table of its receiver
SubScopeValueSharingNames(sc, namespace, freshNamemap) ==
    [graph               |-> sc.graph,
     namemap             |-> sc.namemap,
     namespace           |-> namespace,
     controlDependencies |-> sc.controlDependencies,
     device              |-> sc.device,
     outTagMap           |-> sc.outTagMap,
     err                 |-> sc.err]

\* the Scope SubScope returns: sc with the namespace and a name table of its own
SubScopeValue(sc, namespace, freshNamemap) ==
    [graph               |-> sc.graph,
     namemap             |-> freshNamemap,
     namespace           |-> namespace,
     controlDependencies |-> sc.controlDependencies,
     device              |-> sc.device,
     outTagMap           |-> sc.outTagMap,
     err                 |-> sc.err]

SubScope(s, namespace) ==
    LET sc == scopes[s]
        u  == uniqueName(namemaps[sc.namemap], namespace)
        ns == InNamespace(sc.namespace, u.result)
        child == SubScopeValue(sc, ns, Len(namemaps) + 1)
    IN  /\ CallsMade < MaxCalls
        /\ namemaps' = IF child.namemap = Len(namemaps) + 1
                       THEN Append([namemaps EXCEPT ![sc.namemap] = u.namemap],
                                   EmptyNameMap)
                       ELSE [namemaps EXCEPT ![sc.namemap] = u.namemap]
        /\ scopes' = Append(scopes, child)
        /\ derived' = Append(derived, Derivation("SubScope", s, namespace, << >>, ""))
        /\ ret' = Called("SubScope", s, "return", Nil, 0, NoErr, Len(scopes) + 1, NoErr)
        /\ UNCHANGED <<graphs, errCells, arrays, handed, tagVars, auxVars, funcVars>>

\* deps that reuse the caller's slice when the receiver has no dependencies
CopyControlDependenciesAliasingOps(h, parent, ops) ==
    IF parent.len = 0 THEN [heap |-> h, slice |-> ops]
    ELSE LET made == MakeSlice(h, parent.len + ops.len)
             one  == AppendSlice(made.heap, made.slice, Elems(made.heap, parent))
         IN  AppendSlice(one.heap, one.slice, Elems(one.heap, ops))

\* deps of WithControlDependencies: a new array of exactly the needed
\* capacity, filled with the parent's list and then with ops
CopyControlDependencies(h, parent, ops) ==
    LET made == MakeSlice(h, parent.len + ops.len)
        one  == AppendSlice(made.heap, made.slice, Elems(made.heap, parent))
    IN  AppendSlice(one.heap, one.slice, Elems(one.heap, ops))

\* WithControlDependencies whose struct literal leaves the device out
WithControlDependenciesValueNoDevice(sc, deps) ==
    [graph               |-> sc.graph,
     namemap             |-> sc.namemap,
     namespace           |-> sc.namespace,
     controlDependencies |-> deps,
     device              |-> "",
     outTagMap           |-> sc.outTagMap,
     err                 |-> sc.err]

\* the Scope WithControlDependencies returns
WithControlDependenciesValue(sc, deps) ==
    [graph               |-> sc.graph,
     namemap             |-> sc.namemap,
     namespace           |-> sc.namespace,
     controlDependencies |-> deps,
     device              |-> sc.device,
     outTagMap           |-> sc.outTagMap,
     err                 |-> sc.err]

\* the caller's argument ops...: nothing, or the first n elements of the
\* slice it keeps, which it can still write to after the call
CallerSlice(n) ==
    IF n = 0 THEN NilSlice ELSE [arr |-> 1, len |-> n, cap |-> MaxDeps]

\* s.WithControlDependencies(ops...) for a slice ops of the heap h
WithControlDependenciesOf(s, h, ops) ==
    LET sc     == scopes[s]
        opsVal == Elems(h, ops)
        deps   == CopyControlDependencies(h, sc.controlDependencies, ops)
    IN  /\ CallsMade < MaxCalls
        /\ arrays' = deps.heap
        /\ scopes' = Append(scopes, WithControlDependenciesValue(sc, deps.slice))
        /\ derived' = Append(derived,
                Derivation("WithControlDependencies", s, "", opsVal, ""))
        /\ ret' = Called("WithControlDependencies", s, "return", Nil, 0, NoErr,
                         Len(scopes) + 1, NoErr)
        /\ UNCHANGED <<graphs, namemaps, errCells, handed, tagVars, auxVars, funcVars>>

WithControlDependencies(s, n) ==
    WithControlDependenciesOf(s, arrays, CallerSlice(n))

\* the Scope WithDevice returns
WithDeviceValue(sc, device) ==
    [graph               |-> sc.graph,
     namemap             |-> sc.namemap,
     namespace           |-> sc.namespace,
     controlDependencies |-> sc.controlDependencies,
     device              |-> device,
     outTagMap           |-> sc.outTagMap,
     err                 |-> sc.err]

WithDevice(s, device) ==
    /\ CallsMade < MaxCalls
    /\ scopes' = Append(scopes, WithDeviceValue(scopes[s], device))
    /\ derived' = Append(derived, Derivation("WithDevice", s, "", << >>, device))
    /\ ret' = Called("WithDevice", s, "return", Nil, 0, NoErr, Len(scopes) + 1, NoErr)
    /\ UNCHANGED <<graphs, namemaps, errCells, arrays, handed, tagVars, auxVars, funcVars>>

\* the caller overwrites an element of the slice it passes as ops...
CallerModifiesOps(i, v) ==
    /\ arrays[1].elems[i] # v
    /\ arrays' = [arrays EXCEPT ![1].elems[i] = v]
    /\ UNCHANGED <<graphs, scopes, namemaps, errCells, handed, derived, ret, tagVars, auxVars, funcVars>>

----------------------------------------------------------------------------
(* The tag registry: Scope.tagVariable, Scope.GetParams and                *)
(* Scope.mustGetParams.  A tagged value is a tf.Output, an output of an    *)
(* operation of the graph.                                                 *)

\* output 0 of an operation
Output(o) == [op |-> o, index |-> 0]

\* what a call of the tag registry was given and what it gave back
CalledTags(call, s, outcome, tags, params, panicValue) ==
    [call |-> call, on |-> Receiver(s), outcome |-> outcome, tags |-> tags,
     params |-> params, panicValue |-> panicValue]

\* tagVariable putting x in front of the list of each tag
RECURSIVE tagVariableLoopPrepending(_, _, _)
tagVariableLoopPrepending(tm, x, tags) ==
    IF tags = << >> THEN tm
    ELSE tagVariableLoopPrepending([tm EXCEPT ![Head(tags)] = <<x>> \o @], x,
                                   Tail(tags))

\* the loop of tagVariable: x appended to the list of each tag, in turn
RECURSIVE tagVariableLoop(_, _, _)
tagVariableLoop(tm, x, tags) ==
    IF tags = << >> THEN tm
    ELSE tagVariableLoop([tm EXCEPT ![Head(tags)] = Append(@, x)], x, Tail(tags))

tagVariable(s, x, tags) ==
    /\ CallsMade + Len(tags) <= MaxCalls
    /\ tagmaps' = [tagmaps EXCEPT ![scopes[s].outTagMap] = tagVariableLoop(@, x, tags)]
    /\ tagged' = tagged \o [i \in 1..Len(tags) |->
                                [x |-> x, tag |-> tags[i], on |-> Receiver(s)]]
    /\ ret' = CalledTags("tagVariable", s, "return", tags, << >>, NoErr)
    /\ UNCHANGED <<graphs, scopes, namemaps, errCells, arrays, handed, derived,
                   funcVars, auxVars>>

\* the tags GetParams looks up: TagTrainable when none is given
RequestedTags(tags) == IF Len(tags) = 0 THEN <<TagTrainable>> ELSE tags

\* the loop of GetParams: the list of each tag appended to params, in turn
RECURSIVE GetParamsLoop(_, _, _)
GetParamsLoop(tm, tags, params) ==
    IF tags = << >> THEN params
    ELSE GetParamsLoop(tm, Tail(tags), params \o tm[Head(tags)])

\* the list s.GetParams(tags...) returns
GetParamsOf(s, tags) ==
    GetParamsLoop(tagmaps[scopes[s].outTagMap], RequestedTags(tags), << >>)

GetParams(s, tags) ==
    /\ ret' = CalledTags("GetParams", s, "return", tags, GetParamsOf(s, tags), NoErr)
    /\ UNCHANGED <<graphs, scopes, namemaps, errCells, arrays, handed, derived,
                   tagVars, auxVars, funcVars>>

\* mustGetParams that accepts an empty list
mustGetParamsAcceptsNone(params) == FALSE

\* the check of mustGetParams: len(params) == 0
mustGetParamsFails(params) == Len(params) = 0

\* fmt's %v of a list of tags: the tags between brackets, blanks between them
RECURSIVE FormatTags(_)
FormatTags(tags) ==
    IF tags = << >> THEN ""
    ELSE IF Len(tags) = 1 THEN Head(tags)
    ELSE Head(tags) \o " " \o FormatTags(Tail(tags))

\* fmt.Errorf("no matching parameters found for tags: %v", tags)
NoParamsErr(tags) ==
    NewErr("no matching parameters found for tags: [" \o FormatTags(tags) \o "]", "")

mustGetParams(s, tags) ==
    LET params == GetParamsOf(s, tags)
    IN  /\ ret' = IF mustGetParamsFails(params)
                  THEN CalledTags("mustGetParams", s, "panic", tags, << >>,
                                  NoParamsErr(tags))
                  ELSE CalledTags("mustGetParams", s, "return", tags, params, NoErr)
        /\ UNCHANGED <<graphs, scopes, namemaps, errCells, arrays, handed, derived,
                       tagVars, auxVars, funcVars>>

----------------------------------------------------------------------------
(* OptimizerSGD.  Its calls after mustGetParams are taken one at a time:   *)
(* stack holds the scope, the parameters, the calls still to make and the  *)
(* update operations collected so far.                                     *)

\* Flatten(s, x): Const(s, []int64{-1}), then Reshape
FlattenCalls == <<"Const", "Reshape">>

\* the calls of one round of the loop over newGrads
UpdateCalls == FlattenCalls \o <<"Square", "Sum", "DivNoNan", "Mul", "AssignSub">>

RECURSIVE Repeated(_, _)
Repeated(calls, n) == IF n = 0 THEN << >> ELSE calls \o Repeated(calls, n - 1)

\* the calls OptimizerSGD makes after mustGetParams returned n parameters
OptimizerSGDCalls(n) ==
    <<"Gradients", "Const", "Const", "Pack">> \o FlattenCalls \o <<"Max", "Mul">>
        \o Repeated(UpdateCalls, n) \o <<"WithControlDependencies", "NoOp">>

\* Gradients(s, losses, params): the runtime adds the gradient operations to
\* the graph, one per parameter, or fails, and the failure goes to UpdateErr
Gradients(s, params, verdict) ==
    IF verdict # NoErr
    THEN UpdateErr(s, "Gradients", verdict)
    ELSE LET g == scopes[s].graph
         IN  /\ graphs' = [graphs EXCEPT ![g] = @ \o
                    [i \in 1..Len(params) |->
                        [type |-> "Gradients",
                         name |-> "Gradients/" \o ToString(Len(graphs[g]) + i),
                         controlDependencies |-> << >>, device |-> ""]]]
             /\ ret' = Called("Gradients", s, "return", Nil, 0, NoErr, 0, NoErr)
             /\ UNCHANGED <<scopes, namemaps, errCells, arrays, handed, derived,
                            tagVars, auxVars, funcVars>>

\* Const(scope, value) for a value a tensor can hold
Const(s, verdict) ==
    IF Err(s) # NoErr
    THEN /\ ret' = Called("Const", s, "panic", Nil, 0, NoErr, 0, Err(s))
         /\ UNCHANGED <<graphs, scopes, namemaps, errCells, arrays, handed, derived,
                        tagVars, auxVars, funcVars>>
    ELSE AddOperation(s, "Const", "", << >>, verdict)

\* the call record of an optimizer constructor
CalledOptimizer(call, s, outcome, tags, panicValue) ==
    [call |-> call, on |-> Receiver(s), outcome |-> outcome, tags |-> tags,
     panicValue |-> panicValue]

\* OptimizerSGD(s, losses, learnRate, tags...) up to the return of
\* mustGetParams: the panic leaves it at once
OptimizerSGD(s, tags) ==
    LET params == GetParamsOf(s, tags)
    IN  /\ stack.pc # "running"
        /\ CallsMade < MaxCalls
        /\ IF mustGetParamsFails(params)
           THEN /\ ret' = CalledOptimizer("OptimizerSGD", s, "panic", tags,
                                          NoParamsErr(tags))
                /\ stack' = [fn |-> "OptimizerSGD", pc |-> "panicked",
                             made |-> stack.made, helpers |-> stack.helpers + 1]
           ELSE /\ ret' = CalledOptimizer("OptimizerSGD", s, "running", tags, NoErr)
                /\ stack' = [fn |-> "OptimizerSGD", pc |-> "running",
                             made |-> stack.made, helpers |-> stack.helpers + 1,
                             s |-> s, params |-> params,
                             todo |-> OptimizerSGDCalls(Len(params)),
                             updateOps |-> << >>]
        /\ UNCHANGED <<graphs, scopes, namemaps, errCells, arrays, handed, derived,
                       tagVars, auxVars, funcVars>>

\* the next call of the OptimizerSGD in progress; a panic ends it, the
\* return of NoOp completes it
OptimizerSGDStep(verdict) ==
    LET f    == stack
        call == Head(f.todo)
    IN  /\ f.fn = "OptimizerSGD"
        /\ f.pc = "running"
        /\ CASE call = "Gradients" -> Gradients(f.s, f.params, verdict)
             [] call = "Const" -> Const(f.s, verdict)
             [] call = "WithControlDependencies" ->
                    WithControlDependenciesOf(f.s,
                        Append(arrays, NewArray("OptimizerSGD", f.updateOps)),
                        [arr |-> Len(arrays) + 1, len |-> Len(f.updateOps),
                         cap |-> Len(f.updateOps)])
             [] call = "NoOp" -> AddOperation(Len(scopes), "NoOp", "", << >>, verdict)
             [] OTHER -> AddOperation(f.s, call, "", << >>, verdict)
        /\ stack' =
            IF ret'.outcome = "panic" THEN [f EXCEPT !.pc = "panicked"]
            ELSE [f EXCEPT
                    !.todo = Tail(@),
                    !.updateOps = IF call = "AssignSub" THEN Append(@, ret'.op)
                                  ELSE @,
                    !.made = @ + (Len(handed') - Len(handed))
                               + (Len(scopes') - Len(scopes)),
                    !.pc = IF Len(f.todo) = 1 THEN "returned" ELSE "running"]

----------------------------------------------------------------------------
(* WeightDecay (decoupled weight decay added to a reference optimizer).    *)
(* Like OptimizerSGD its calls are taken one at a time.  The frame keeps   *)
(* the parameters of the reference optimizer (ref), the losses' parameters *)
(* in the order the losses were made, params, and for each update          *)
(* operation the parameter and the gradient it was made of.                *)

\* the members of a list that are among the parameters of the reference
\* optimizer: if _, ok := refParmMap[p]; ok
InRef(list, ref) ==
    SelectSeq(list, LAMBDA p : \E i \in 1..Len(ref) : ref[i] = p)

\* the members of a list
Members(list) == {list[i] : i \in 1..Len(list)}

\* the orders in which a range over a Go map with the keys S can yield them
MapRanges(S) ==
    {order \in [1..Cardinality(S) -> S] : \A x \in S : \E i \in DOMAIN order : order[i] = x}

\* the calls WeightDecay makes for n1 L1 parameters, n2 L2 parameters and n
\* parameters in all
WeightDecayCalls(n1, n2, n) ==
    <<"Const">> \o Repeated(FlattenCalls \o <<"Mean">>, n1)
        \o Repeated(<<"L2Loss">>, n2) \o <<"Gradients", "Const">>
        \o Repeated(<<"Mul", "Mul", "AssignSub">>, n)
        \o <<"WithControlDependencies", "NoOp">>

\* the values params can get: for p := range paramMap { params = append(params, p) }
WeightDecayParams(lossParams) == MapRanges(Members(lossParams))

\* WeightDecay(s, refOpt, decayRate) up to the loop over paramMap
WeightDecay(s, ref) ==
    LET l1 == InRef(GetParamsOf(s, <<TagDecayL1>>), ref)
        l2 == InRef(GetParamsOf(s, <<TagDecayL2>>), ref)
    IN  /\ stack.pc # "running"
        /\ CallsMade < MaxCalls
        /\ \E params \in WeightDecayParams(l1 \o l2) :
            stack' = [fn |-> "WeightDecay", pc |-> "running",
                      made |-> stack.made, helpers |-> stack.helpers + 1,
                      s |-> s, ref |-> ref, lossParams |-> l1 \o l2,
                      params |-> params,
                      todo |-> WeightDecayCalls(Len(l1), Len(l2), Len(params)),
                      gradients |-> << >>, updateOps |-> << >>, updates |-> << >>]
        /\ ret' = CalledOptimizer("WeightDecay", s, "running", << >>, NoErr)
        /\ UNCHANGED <<graphs, scopes, namemaps, errCells, arrays, handed, derived,
                       tagVars, auxVars, funcVars>>

\* the next call of the WeightDecay in progress; a panic ends it, the
\* return of NoOp completes it
WeightDecayStep(verdict) ==
    LET f    == stack
        call == Head(f.todo)
        i    == Len(f.updates) + 1
    IN  /\ f.fn = "WeightDecay"
        /\ f.pc = "running"
        /\ CASE call = "Gradients" -> Gradients(f.s, f.params, verdict)
             [] call = "Const" -> Const(f.s, verdict)
             [] call = "WithControlDependencies" ->
                    WithControlDependenciesOf(f.s,
                        Append(arrays, NewArray("WeightDecay", f.updateOps)),
                        [arr |-> Len(arrays) + 1, len |-> Len(f.updateOps),
                         cap |-> Len(f.updateOps)])
             [] call = "NoOp" -> AddOperation(Len(scopes), "NoOp", "", << >>, verdict)
             [] OTHER -> AddOperation(f.s, call, "", << >>, verdict)
        /\ stack' =
            IF ret'.outcome = "panic" THEN [f EXCEPT !.pc = "panicked"]
            ELSE [f EXCEPT
                    !.todo = Tail(@),
                    !.gradients =
                        IF call = "Gradients"
                        THEN [k \in 1..Len(f.params) |->
                                Output(Len(graphs[scopes[f.s].graph]) + k)]
                        ELSE @,
                    !.updateOps = IF call = "AssignSub" THEN Append(@, ret'.op)
                                  ELSE @,
                    !.updates = IF call = "AssignSub"
                                THEN Append(@, [op |-> ret'.op, param |-> f.params[i],
                                                gradient |-> f.gradients[i]])
                                ELSE @,
                    !.made = @ + (Len(handed') - Len(handed))
                               + (Len(scopes') - Len(scopes)),
                    !.pc = IF Len(f.todo) = 1 THEN "returned" ELSE "running"]

\* the variables a model has after its layers were built: layers[i] is the
\* list of tags of variable i, which VariableV2 made and tagVariable tagged
\* (the operations Linear and Bias add after that are left out)
VariableSpec(i) ==
    ScopedOpSpec(NewScopeValue(1, 1, 1, 1), << >>, "VariableV2",
                 AutoName("VariableV2", i), << >>)

RECURSIVE TaggedBy(_, _)
TaggedBy(layers, i) ==
    IF i > Len(layers) THEN << >>
    ELSE [k \in 1..Len(layers[i]) |->
            [x |-> Output(i), tag |-> layers[i][k],
             on |-> [err |-> 1, graph |-> 1, root |-> TRUE]]]
         \o TaggedBy(layers, i + 1)

RECURSIVE TagMapOf(_, _, _)
TagMapOf(tm, layers, i) ==
    IF i > Len(layers) THEN tm
    ELSE TagMapOf(tagVariableLoop(tm, Output(i), layers[i]), layers, i + 1)

\* the tag lists layers are built with
LayerTags ==
    {<<TagTrainable, TagDecayL2>>, <<TagTrainable, TagDecayL1>>,
     <<TagTrainable, TagDecayL1, TagDecayL2>>, <<TagTrainable>>}

\* the models: one or two variables
Layerings == {<<t>> : t \in LayerTags} \cup {<<t, u>> : t, u \in LayerTags}

----------------------------------------------------------------------------
(* Functions (tensorflow/go/func.go).  A *Func is an index into funcs, 0   *)
(* the nil *Func; funcs[f] is the TF_Function its field c points to, with  *)
(* made, the place in rtlog of the runtime call that made it, and attr, the *)
(* attributes set on it.  The runtime behind the C calls is modelled by    *)
(* the TF_ operators.                                                      *)

\* the attribute names the caller uses
AttrNames == {"_noinline"}

\* the attributes of a new function: none is set
NoAttrs == [a \in AttrNames |-> [present |-> FALSE, value |-> << >>]]

NULL == 0                               \* the C null pointer

\* the other value of the flag: the name is taken as it is
cHashFnNameOff == 0

cHashFnName == 1                        \* AsFunc: name hashing enabled

\* a function definition as the runtime keeps it
FunctionDef(name, nodes, inputs, outputs, outNames, desc) ==
    [name |-> name, nodes |-> nodes, inputs |-> inputs, outputs |-> outputs,
     outNames |-> outNames, desc |-> desc]

\* the hash the runtime appends to a function name: it depends on the body
HashOf(nodes, inputs, outputs) ==
    "h" \o ToString(nodes) \o ToString(Len(inputs)) \o ToString(Len(outputs))

\* TF_GraphToFunction with all operations of the graph (num_opers = -1):
\* the new function, named fn_name, with "_<hash>" appended when
\* append_hash_to_fn_name is 1; or an error and no function
TF_GraphToFunction(g, fnName, appendHash, ins, outs, outNames, desc, verdict) ==
    IF verdict # NoErr THEN [fn |-> NULL, def |-> NULL, err |-> verdict]
    ELSE [fn  |-> Len(funcs) + 1,
          def |-> FunctionDef(
                    IF appendHash = 1
                    THEN fnName \o "_" \o HashOf(Len(g), ins, outs)
                    ELSE fnName,
                    Len(g), ins, outs, outNames, desc),
          err |-> NoErr]

\* the function table after a definition is added to it: a definition it
\* already holds is not added again
AddFunctionDef(lib, def) ==
    IF \E i \in 1..Len(lib) : lib[i] = def THEN lib ELSE Append(lib, def)

\* TF_GraphCopyFunction: the definition of func, and of grad unless it is
\* NULL, copied into the function table; or an error and no copy
TF_GraphCopyFunction(lib, func, grad, verdict) ==
    IF func = NULL
    THEN [lib |-> lib,
          err |-> NewErr("'func' argument to TF_GraphCopyFunction cannot be null", "")]
    ELSE IF verdict # NoErr THEN [lib |-> lib, err |-> verdict]
    ELSE [lib |-> IF grad = NULL THEN AddFunctionDef(lib, funcs[func].def)
                  ELSE AddFunctionDef(AddFunctionDef(lib, funcs[func].def),
                                      funcs[grad].def),
          err |-> NoErr]

\* TF_FunctionName
TF_FunctionName(f) == funcs[f].def.name

\* an entry of rtlog: the call, its arguments and the status it set
RuntimeCall(api, args, err) == [api |-> api, args |-> args, err |-> err]

\* the call record of a call of func.go
CalledFunc(call, outcome, args, fn, err, value, panicValue) ==
    [call |-> call, outcome |-> outcome, args |-> args, fn |-> fn, err |-> err,
     value |-> value, panicValue |-> panicValue]

\* NewGraph(): an empty graph with an empty function table
NewGraph ==
    /\ CallsMade < MaxCalls
    /\ graphs' = Append(graphs, << >>)
    /\ libs' = Append(libs, << >>)
    /\ ret' = CalledFunc("NewGraph", "return", << >>, 0, NoErr, Len(graphs) + 1, NoErr)
    /\ UNCHANGED <<scopes, namemaps, errCells, arrays, handed, derived, tagVars, auxVars,
                   funcs, rtlog, writers>>

\* Func.Name
Name(fn) ==
    /\ ret' = CalledFunc("Name", "return", [fn |-> fn], fn, NoErr,
                         TF_FunctionName(fn), NoErr)
    /\ UNCHANGED <<graphs, scopes, namemaps, errCells, arrays, handed, derived,
                   tagVars, auxVars, funcVars>>

\* Func.Delete
Delete(fn) ==
    /\ funcs' = [funcs EXCEPT ![fn].live = FALSE]
    /\ ret' = CalledFunc("Delete", "return", [fn |-> fn], fn, NoErr, 0, NoErr)
    /\ UNCHANGED <<graphs, scopes, namemaps, errCells, arrays, handed, derived,
                   tagVars, auxVars, libs, rtlog, writers>>

\* Graph.RegisterFunc that copies nothing for a nil function and reports
\* success
RegisteredSkippingNil(g, fn, grad, verdict) ==
    IF fn = 0
    THEN [lib |-> libs[g], log |-> rtlog, err |-> NoErr]
    ELSE LET r == TF_GraphCopyFunction(libs[g], fn, grad, verdict)
         IN  [lib |-> r.lib,
              log |-> Append(rtlog, RuntimeCall("TF_GraphCopyFunction",
                         [g |-> g, fn |-> fn, grad |-> grad], r.err)),
              err |-> r.err]

\* g.RegisterFunc(fn, grad): the function table of g and the log after it,
\* and the error it returns; a nil grad becomes &Func{}, whose c is NULL
Registered(g, fn, grad, verdict) ==
    IF fn = 0
    THEN [lib |-> libs[g], log |-> rtlog,
          err |-> NewErr("cannot register a nil Func", "")]
    ELSE LET r == TF_GraphCopyFunction(libs[g], fn, grad, verdict)
         IN  [lib |-> r.lib,
              log |-> Append(rtlog, RuntimeCall("TF_GraphCopyFunction",
                         [g |-> g, fn |-> fn, grad |-> grad], r.err)),
              err |-> r.err]

\* Graph.RegisterFunc that releases the function it has copied
GraphRegisterFuncMoving(g, fn, grad, verdict) ==
    LET r == Registered(g, fn, grad, verdict)
    IN  /\ CallsMade < MaxCalls
        /\ libs' = [libs EXCEPT ![g] = r.lib]
        /\ rtlog' = r.log
        /\ funcs' = IF fn # 0 /\ r.err = NoErr
                    THEN [funcs EXCEPT ![fn].live = FALSE] ELSE funcs
        /\ ret' = CalledFunc("Graph.RegisterFunc", "return",
                             [g |-> g, fn |-> fn, grad |-> grad], 0, r.err, 0, NoErr)
        /\ UNCHANGED <<graphs, scopes, namemaps, errCells, arrays, handed, derived,
                       tagVars, auxVars, writers>>

\* Graph.RegisterFunc
GraphRegisterFunc(g, fn, grad, verdict) ==
    LET r == Registered(g, fn, grad, verdict)
    IN  /\ CallsMade < MaxCalls
        /\ libs' = [libs EXCEPT ![g] = r.lib]
        /\ rtlog' = r.log
        /\ ret' = CalledFunc("Graph.RegisterFunc", "return",
                             [g |-> g, fn |-> fn, grad |-> grad], 0, r.err, 0, NoErr)
        /\ UNCHANGED <<graphs, scopes, namemaps, errCells, arrays, handed, derived,
                       tagVars, auxVars, funcs, writers>>

\* Scope.RegisterFunc: a failure of Graph.RegisterFunc goes to UpdateErr,
\* which records it and panics; otherwise nil is returned (value: the error
\* Graph.RegisterFunc returned)
ScopeRegisterFunc(s, fn, grad, verdict) ==
    LET g == scopes[s].graph
        r == Registered(g, fn, grad, verdict)
        c == scopes[s].err
        e == UpdateErrCell(errCells[c], "RegisterFunc", r.err)
    IN  /\ CallsMade < MaxCalls
        /\ libs' = [libs EXCEPT ![g] = r.lib]
        /\ rtlog' = r.log
        /\ IF r.err # NoErr
           THEN /\ errCells' = [errCells EXCEPT ![c] = e]
                /\ ret' = CalledFunc("Scope.RegisterFunc", "panic",
                              [s |-> Receiver(s), fn |-> fn, grad |-> grad],
                              0, NoErr, r.err, e)
           ELSE /\ UNCHANGED errCells
                /\ ret' = CalledFunc("Scope.RegisterFunc", "return",
                              [s |-> Receiver(s), fn |-> fn, grad |-> grad],
                              0, NoErr, r.err, NoErr)
        /\ UNCHANGED <<graphs, scopes, namemaps, arrays, handed, derived, tagVars, auxVars,
                       funcs, writers>>

\* the check that opens AsFunc, without its exception for no names
AsFuncMismatchAlsoWithoutNames(numOuts, numNames) == numOuts # numNames

\* the check that opens AsFunc: numOuts != numNames && numNames != 0
AsFuncMismatch(numOuts, numNames) == numOuts # numNames /\ numNames # 0

\* fmt.Errorf("mismatch of outputs and their names: %d vs %d", ...)
MismatchErr(numOuts, numNames) ==
    NewErr("mismatch of outputs and their names: " \o ToString(numOuts)
               \o " vs " \o ToString(numNames), "")

\* Graph.AsFunc: the mismatch is returned as an error; a failure of the
\* runtime is raised with panic(err)
AsFunc(g, name, inputs, outputs, outNames, desc, verdict) ==
    LET args == [g |-> g, name |-> name, inputs |-> inputs, outputs |-> outputs,
                 outNames |-> outNames, desc |-> desc]
    IN  IF AsFuncMismatch(Len(outputs), Len(outNames))
        THEN /\ ret' = CalledFunc("AsFunc", "return", args, 0,
                            MismatchErr(Len(outputs), Len(outNames)), 0, NoErr)
             /\ UNCHANGED <<graphs, scopes, namemaps, errCells, arrays, handed,
                            derived, tagVars, auxVars, funcVars>>
        ELSE LET r == TF_GraphToFunction(graphs[g], name, cHashFnName, inputs,
                                         outputs, outNames, desc, verdict)
             IN  /\ CallsMade < MaxCalls
                 /\ rtlog' = Append(rtlog,
                        RuntimeCall("TF_GraphToFunction", args, r.err))
                 /\ IF r.err # NoErr
                    THEN /\ ret' = CalledFunc("AsFunc", "panic", args, 0, NoErr, 0,
                                              r.err)
                         /\ UNCHANGED funcs
                    ELSE /\ funcs' = Append(funcs, [def |-> r.def, live |-> TRUE,
                                                  made |-> Len(rtlog) + 1,
                                                  attr |-> NoAttrs])
                         /\ ret' = CalledFunc("AsFunc", "return", args, r.fn,
                                              NoErr, 0, NoErr)
                 /\ UNCHANGED <<graphs, scopes, namemaps, errCells, arrays, handed,
                                derived, tagVars, auxVars, libs, writers>>

\* fmt.Errorf("failed to get functions for graph: %w", err)
FunctionsErr(err) ==
    NewErr("failed to get functions for graph: " \o err.msg, err.msg)

\* Graph.Functions: nil for an empty table (value: the list returned)
Functions(g, verdict) ==
    LET numFuncs == Len(libs[g])
        args     == [g |-> g]
    IN  IF numFuncs <= 0
        THEN /\ ret' = CalledFunc("Functions", "return", args, 0, NoErr, << >>, NoErr)
             /\ UNCHANGED <<graphs, scopes, namemaps, errCells, arrays, handed,
                            derived, tagVars, auxVars, funcVars>>
        ELSE /\ CallsMade < MaxCalls
             /\ rtlog' = Append(rtlog,
                    RuntimeCall("TF_GraphGetFunctions", args, verdict))
             /\ IF verdict # NoErr
                THEN /\ ret' = CalledFunc("Functions", "panic", args, 0, NoErr,
                                          << >>, FunctionsErr(verdict))
                     /\ UNCHANGED funcs
                ELSE /\ funcs' = funcs \o [i \in 1..numFuncs |->
                                            [def |-> libs[g][i], live |-> TRUE,
                                             made |-> Len(rtlog) + 1,
                                             attr |-> NoAttrs]]
                     /\ ret' = CalledFunc("Functions", "return", args, 0, NoErr,
                                    [i \in 1..numFuncs |-> Len(funcs) + i], NoErr)
             /\ UNCHANGED <<graphs, scopes, namemaps, errCells, arrays, handed,
                            derived, tagVars, auxVars, libs, writers>>

----------------------------------------------------------------------------
(* Export and import of functions (tensorflow/go/func.go).  A byte slice   *)
(* is a sequence of strings, one per byte; the wire form of a function     *)
(* definition is the sequence of its fields, each a tag byte followed by   *)
(* its payload, and a field holding its default value is left out.         *)

\* the definition every field of which holds its default value
DefaultFunctionDef == FunctionDef("", 0, << >>, << >>, << >>, "")

\* the payload of a number: one byte
WireOfNat(n) == <<ToString(n)>>

\* the number a payload byte stands for, -1 if it stands for none
ParseNat(b) ==
    IF \E n \in 0..255 : ToString(n) = b
    THEN CHOOSE n \in 0..255 : ToString(n) = b
    ELSE -1

\* a scalar field: left out when it holds its default value
WireOfScalar(tag, payload, isDefault) ==
    IF isDefault THEN << >> ELSE <<tag>> \o payload

\* a repeated field: one tag and payload per member
RECURSIVE WireOfRepeated(_, _)
WireOfRepeated(tag, payloads) ==
    IF payloads = << >> THEN << >>
    ELSE <<tag>> \o Head(payloads) \o WireOfRepeated(tag, Tail(payloads))

\* the payload of an Output: its operation and its index
WireOfOutput(o) == WireOfNat(o.op) \o WireOfNat(o.index)

\* the wire form of a function definition
Serialize(def) ==
    WireOfScalar("n", <<def.name>>, def.name = "")
        \o WireOfScalar("o", WireOfNat(def.nodes), def.nodes = 0)
        \o WireOfRepeated("i", [k \in 1..Len(def.inputs) |->
                                    WireOfOutput(def.inputs[k])])
        \o WireOfRepeated("r", [k \in 1..Len(def.outputs) |->
                                    WireOfOutput(def.outputs[k])])
        \o WireOfRepeated("m", [k \in 1..Len(def.outNames) |->
                                    <<def.outNames[k]>>])
        \o WireOfScalar("d", <<def.desc>>, def.desc = "")

\* bytes without their first n
Drop(bytes, n) == SubSeq(bytes, n + 1, Len(bytes))

\* the definition the fields in bytes make of def: a scalar field replaces
\* the value, a repeated field adds a member; ok is FALSE for an unknown
\* tag, a payload cut short or a payload that is no number
RECURSIVE ParseFields(_, _)
ParseFields(bytes, def) ==
    IF bytes = << >> THEN [ok |-> TRUE, def |-> def]
    ELSE LET tag == Head(bytes)
             has(n) == Len(bytes) >= 1 + n
             nat(k) == ParseNat(bytes[1 + k])
         IN  CASE tag = "n" /\ has(1) ->
                    ParseFields(Drop(bytes, 2), [def EXCEPT !.name = bytes[2]])
               [] tag = "o" /\ has(1) /\ nat(1) >= 0 ->
                    ParseFields(Drop(bytes, 2), [def EXCEPT !.nodes = nat(1)])
               [] tag = "i" /\ has(2) /\ nat(1) >= 0 /\ nat(2) >= 0 ->
                    ParseFields(Drop(bytes, 3),
                        [def EXCEPT !.inputs =
                            Append(@, [op |-> nat(1), index |-> nat(2)])])
               [] tag = "r" /\ has(2) /\ nat(1) >= 0 /\ nat(2) >= 0 ->
                    ParseFields(Drop(bytes, 3),
                        [def EXCEPT !.outputs =
                            Append(@, [op |-> nat(1), index |-> nat(2)])])
               [] tag = "m" /\ has(1) ->
                    ParseFields(Drop(bytes, 2),
                        [def EXCEPT !.outNames = Append(@, bytes[2])])
               [] tag = "d" /\ has(1) ->
                    ParseFields(Drop(bytes, 2), [def EXCEPT !.desc = bytes[2]])
               [] OTHER -> [ok |-> FALSE, def |-> def]

\* TF_FunctionToFunctionDef: the wire form of the definition in the buffer,
\* or an error
TF_FunctionToFunctionDef(f, verdict) ==
    IF verdict # NoErr THEN [buf |-> << >>, err |-> verdict]
    ELSE [buf |-> Serialize(funcs[f].def), err |-> NoErr]

\* TF_FunctionImportFunctionDef: the function the first len bytes of proto
\* define, or an error
TF_FunctionImportFunctionDef(proto, len, verdict) ==
    LET parsed == ParseFields(SubSeq(proto, 1, len), DefaultFunctionDef)
    IN  IF verdict # NoErr THEN [def |-> NULL, err |-> verdict]
        ELSE IF ~parsed.ok
        THEN [def |-> NULL,
              err |-> NewErr("Invalid FunctionDef given to TF_FunctionImportFunctionDef", "")]
        ELSE [def |-> parsed.def, err |-> NoErr]

\* getBufferAsSlice: the bytes of the buffer as a Go slice
getBufferAsSlice(buf) == buf

\* io.ErrShortWrite
ErrShortWrite == NewErr("short write", "")

\* w.Write(p) on a new writer: a bytes.Buffer takes all of p, a writer with
\* limited room takes what it has room for and reports the short write
Write(w, p) ==
    LET n == IF w.limited /\ w.room < Len(p) THEN w.room ELSE Len(p)
    IN  [n |-> n, data |-> SubSeq(p, 1, n),
         err |-> IF n < Len(p) THEN ErrShortWrite ELSE NoErr]

\* Func.WriteTo that reports the length of the serialization
WroteReportingAll(fn, w, verdict) ==
    LET r     == TF_FunctionToFunctionDef(fn, verdict)
        proto == getBufferAsSlice(r.buf)
        wr    == Write(w, proto)
    IN  IF r.err # NoErr
        THEN [status |-> r.err, written |-> FALSE, data |-> << >>, n |-> 0,
              err |-> r.err]
        ELSE [status |-> r.err, written |-> TRUE, data |-> wr.data,
              n |-> Len(proto), err |-> wr.err]

\* fn.WriteTo(w): the status of the runtime, whether w was written to, the
\* bytes w then holds, and the count and the error returned
Wrote(fn, w, verdict) ==
    LET r     == TF_FunctionToFunctionDef(fn, verdict)
        proto == getBufferAsSlice(r.buf)
        wr    == Write(w, proto)
    IN  IF r.err # NoErr
        THEN [status |-> r.err, written |-> FALSE, data |-> << >>, n |-> 0,
              err |-> r.err]
        ELSE [status |-> r.err, written |-> TRUE, data |-> wr.data, n |-> wr.n,
              err |-> wr.err]

\* Func.WriteTo
WriteTo(fn, w, verdict) ==
    LET r == Wrote(fn, w, verdict)
    IN  /\ CallsMade < MaxCalls
        /\ rtlog' = Append(rtlog,
               RuntimeCall("TF_FunctionToFunctionDef", [fn |-> fn], r.status))
        /\ writers' = IF r.written
                      THEN Append(writers, [fn |-> fn, limited |-> w.limited,
                                            data |-> r.data, n |-> r.n,
                                            err |-> r.err])
                      ELSE writers
        /\ ret' = CalledFunc("WriteTo", "return", [fn |-> fn, w |-> w], fn,
                             r.err, r.n, NoErr)
        /\ UNCHANGED <<graphs, scopes, namemaps, errCells, arrays, handed, derived,
                       tagVars, auxVars, funcs, libs>>

\* ImportFunc: an empty slice is refused before the runtime is called
ImportFunc(proto, verdict) ==
    LET args == [proto |-> proto]
    IN  IF Len(proto) = 0
        THEN /\ ret' = CalledFunc("ImportFunc", "return", args, 0,
                            NewErr("cannot import from empty buffer", ""), 0, NoErr)
             /\ UNCHANGED <<graphs, scopes, namemaps, errCells, arrays, handed,
                            derived, tagVars, auxVars, funcVars>>
        ELSE LET r == TF_FunctionImportFunctionDef(proto, Len(proto), verdict)
             IN  /\ CallsMade < MaxCalls
                 /\ rtlog' = Append(rtlog,
                        RuntimeCall("TF_FunctionImportFunctionDef", args, r.err))
                 /\ IF r.err # NoErr
                    THEN /\ ret' = CalledFunc("ImportFunc", "return", args, 0,
                                              r.err, 0, NoErr)
                         /\ UNCHANGED funcs
                    ELSE /\ funcs' = Append(funcs, [def |-> r.def, live |-> TRUE,
                                                  made |-> Len(rtlog) + 1,
                                                  attr |-> NoAttrs])
                         /\ ret' = CalledFunc("ImportFunc", "return", args,
                                              Len(funcs) + 1, NoErr, 0, NoErr)
                 /\ UNCHANGED <<graphs, scopes, namemaps, errCells, arrays, handed,
                                derived, tagVars, auxVars, libs, writers>>

----------------------------------------------------------------------------
(* Function attributes as serialized values (tensorflow/go/func.go). *)

\* TF_FunctionSetAttrValueProto: the first len bytes at proto become the
\* value of the attribute, or an error and no change
TF_FunctionSetAttrValueProto(f, attrName, proto, len, verdict) ==
    IF verdict # NoErr THEN [attr |-> funcs[f].attr, err |-> verdict]
    ELSE [attr |-> [funcs[f].attr EXCEPT
                        ![attrName] = [present |-> TRUE,
                                       value   |-> SubSeq(proto, 1, len)]],
          err  |-> NoErr]

\* TF_FunctionGetAttrValueProto: the value of the attribute in the buffer,
\* or an error; an attribute that was never set is an error
TF_FunctionGetAttrValueProto(f, attrName, verdict) ==
    IF verdict # NoErr THEN [buf |-> << >>, err |-> verdict]
    ELSE IF ~funcs[f].attr[attrName].present
    THEN [buf |-> << >>,
          err |-> NewErr("Function has no attr named '" \o attrName \o "'.", "")]
    ELSE [buf |-> funcs[f].attr[attrName].value, err |-> NoErr]

\* the slice whose first element SetAttrFrom points the runtime to
PointedAt(proto) == IF Len(proto) = 0 THEN <<"0">> ELSE proto

\* SetAttrFrom that returns at once for an empty value
SetAttrCallSkippingEmpty(fn, attrName, proto, verdict) ==
    IF Len(proto) = 0
    THEN [called |-> FALSE, attr |-> funcs[fn].attr, cLen |-> 0, err |-> NoErr]
    ELSE LET r == TF_FunctionSetAttrValueProto(fn, attrName, PointedAt(proto),
                                               Len(proto), verdict)
         IN  [called |-> TRUE, attr |-> r.attr, cLen |-> Len(proto), err |-> r.err]

\* fn.SetAttrFrom(attrName, proto): whether the runtime is called, with
\* which length, the attributes after it and the error returned
SetAttrCall(fn, attrName, proto, verdict) ==
    LET cLen == Len(proto)
        r    == TF_FunctionSetAttrValueProto(fn, attrName, PointedAt(proto),
                                             cLen, verdict)
    IN  [called |-> TRUE, attr |-> r.attr, cLen |-> cLen, err |-> r.err]

\* Func.SetAttrFrom
SetAttrFrom(fn, attrName, proto, verdict) ==
    LET r == SetAttrCall(fn, attrName, proto, verdict)
    IN  /\ CallsMade < MaxCalls
        /\ rtlog' = IF r.called
                    THEN Append(rtlog, RuntimeCall("TF_FunctionSetAttrValueProto",
                            [fn |-> fn, attrName |-> attrName,
                             proto |-> PointedAt(proto), len |-> r.cLen], r.err))
                    ELSE rtlog
        /\ funcs' = [funcs EXCEPT ![fn].attr = r.attr]
        /\ ret' = CalledFunc("SetAttrFrom", "return",
                             [fn |-> fn, attrName |-> attrName, proto |-> proto],
                             fn, r.err, 0, NoErr)
        /\ UNCHANGED <<graphs, scopes, namemaps, errCells, arrays, handed, derived,
                       tagVars, auxVars, libs, writers>>

\* Func.WriteAttrTo: an empty buffer is no attribute and nothing is written
WriteAttrTo(fn, attrName, w, verdict) ==
    LET r     == TF_FunctionGetAttrValueProto(fn, attrName, verdict)
        proto == getBufferAsSlice(r.buf)
        wr    == Write(w, proto)
        args  == [fn |-> fn, attrName |-> attrName, w |-> w]
    IN  /\ CallsMade < MaxCalls
        /\ rtlog' = Append(rtlog, RuntimeCall("TF_FunctionGetAttrValueProto",
                            [fn |-> fn, attrName |-> attrName, buf |-> r.buf],
                            r.err))
        /\ IF r.err # NoErr
           THEN /\ ret' = CalledFunc("WriteAttrTo", "return", args, fn, r.err, 0, NoErr)
                /\ UNCHANGED writers
           ELSE IF Len(r.buf) = 0
           THEN /\ ret' = CalledFunc("WriteAttrTo", "return", args, fn, NoErr, 0, NoErr)
                /\ UNCHANGED writers
           ELSE /\ writers' = Append(writers,
                        [fn |-> fn, attrName |-> attrName, limited |-> w.limited,
                         data |-> wr.data, n |-> wr.n, err |-> wr.err])
                /\ ret' = CalledFunc("WriteAttrTo", "return", args, fn, wr.err,
                                     wr.n, NoErr)
        /\ UNCHANGED <<graphs, scopes, namemaps, errCells, arrays, handed, derived,
                       tagVars, auxVars, funcs, libs>>

----------------------------------------------------------------------------
(* BuildFunc (tensorflow/go/op/op.go).  The frame in stack keeps its       *)
(* locals: s, phs (each placeholder with the dtype it was made for), and   *)
(* what goFunc returned; at is the statement it has reached.  goFunc is    *)
(* code of the caller: it runs while the frame is at "goFunc".             *)

\* the dtype of the placeholder made next: for i, dt := range dtypes
NextDtypeFromLast(dtypes, phs) == dtypes[Len(dtypes) - Len(phs)]

NextDtype(dtypes, phs) == dtypes[Len(phs) + 1]

\* the calls a step of BuildFunc itself made, which its caller did not make
MadeBy(f) ==
    f.made + (Len(handed') - Len(handed)) + (Len(scopes') - Len(scopes))
           + (Len(graphs') - Len(graphs)) + (Len(rtlog') - Len(rtlog))

\* the frame of a BuildFunc that a panic has left
Panicked(f) ==
    [f EXCEPT !.pc = "panicked", !.made = MadeBy(f), !.helpers = @ + 1]

\* the frame of a goFunc that a panic has left, and BuildFunc with it
PanickedInGoFunc(f) == [f EXCEPT !.pc = "panicked", !.helpers = @ + 1]

\* the inputs BuildFunc passes to AsFunc
Inputs(phs) == [i \in 1..Len(phs) |-> phs[i].out]

\* BuildFunc(name, goFunc, dtypes...) up to the return of NewScope, which
\* makes a graph and a scope
BuildFunc(name, dtypes) ==
    /\ stack.pc # "running"
    /\ CallsMade < MaxCalls
    /\ graphs' = Append(graphs, << >>)
    /\ libs' = Append(libs, << >>)
    /\ namemaps' = Append(namemaps, EmptyNameMap)
    /\ tagmaps' = Append(tagmaps, EmptyTagMap)
    /\ errCells' = Append(errCells, NoErr)
    /\ scopes' = Append(scopes,
            NewScopeValue(Len(graphs) + 1, Len(namemaps) + 1, Len(tagmaps) + 1,
                          Len(errCells) + 1))
    /\ derived' = Append(derived, Derivation("NewScope", 0, "", << >>, ""))
    /\ ret' = CalledFunc("BuildFunc", "running",
                         [name |-> name, dtypes |-> dtypes], 0, NoErr, 0, NoErr)
    /\ stack' = [fn |-> "BuildFunc", pc |-> "running", made |-> stack.made + 2,
                 helpers |-> stack.helpers, s |-> Len(scopes) + 1,
                 name |-> name, dtypes |-> dtypes, phs |-> << >>,
                 at |-> IF Len(dtypes) > 0 THEN "Placeholder" ELSE "goFunc",
                 outs |-> << >>, outNames |-> << >>, desc |-> ""]
    /\ UNCHANGED <<arrays, handed, tagged, funcs, rtlog, writers, auxVars>>

\* the next statement of the BuildFunc in progress, outside goFunc
BuildFuncStep(verdict) ==
    LET f == stack
    IN  /\ f.fn = "BuildFunc"
        /\ f.pc = "running"
        /\ CASE f.at = "Placeholder" ->
                    /\ AddOperation(f.s, "Placeholder", "", << >>, verdict)
                    /\ stack' =
                        IF ret'.outcome = "panic" THEN Panicked(f)
                        ELSE [f EXCEPT
                                !.phs = Append(@, [out   |-> Output(ret'.op),
                                                   dtype |-> NextDtype(f.dtypes, f.phs)]),
                                !.made = MadeBy(f),
                                !.at = IF Len(f.phs) + 1 = Len(f.dtypes)
                                       THEN "goFunc" ELSE "Placeholder"]
             [] f.at = "Finalize" ->
                    /\ Finalize(f.s)
                    /\ stack' = IF ret'.err # NoErr THEN Panicked(f)
                                ELSE [f EXCEPT !.at = "AsFunc"]
             [] f.at = "AsFunc" ->
                    /\ AsFunc(scopes[f.s].graph, f.name, Inputs(f.phs), f.outs,
                              f.outNames, f.desc, verdict)
                    /\ stack' =
                        IF ret'.outcome = "panic" \/ ret'.err # NoErr
                        THEN Panicked(f)
                        ELSE [f EXCEPT !.pc = "returned", !.made = MadeBy(f),
                                       !.helpers = @ + 1]
             [] OTHER -> FALSE

\* goFunc adds an operation to the scope it was given; when that panics it
\* lets the panic pass or recovers from it
GoFuncAdds(type, verdict, recovers) ==
    LET f == stack
    IN  /\ f.fn = "BuildFunc"
        /\ f.pc = "running"
        /\ f.at = "goFunc"
        /\ CallsMade + 1 < MaxCalls
        /\ AddOperation(f.s, type, "", << >>, verdict)
        /\ stack' = IF ret'.outcome = "panic" /\ ~recovers
                    THEN PanickedInGoFunc(f) ELSE f

\* goFunc finalizes the scope it was given
GoFuncFinalizes ==
    LET f == stack
    IN  /\ f.fn = "BuildFunc"
        /\ f.pc = "running"
        /\ f.at = "goFunc"
        /\ Finalize(f.s)
        /\ UNCHANGED stack

\* goFunc returns outs, outNames and desc, and BuildFunc checks s.Err()
GoFuncReturns(outs, outNames, desc) ==
    LET f == stack
    IN  /\ f.fn = "BuildFunc"
        /\ f.pc = "running"
        /\ f.at = "goFunc"
        /\ IF Err(f.s) # NoErr
           THEN /\ ret' = CalledFunc("goFunc", "panic",
                            [outs |-> outs, outNames |-> outNames, desc |-> desc],
                            0, NoErr, 0, Err(f.s))
                /\ stack' = PanickedInGoFunc(f)
           ELSE /\ ret' = CalledFunc("goFunc", "return",
                            [outs |-> outs, outNames |-> outNames, desc |-> desc],
                            0, NoErr, 0, NoErr)
                /\ stack' = [f EXCEPT !.at = "Finalize", !.outs = outs,
                                      !.outNames = outNames, !.desc = desc]
        /\ UNCHANGED <<graphs, scopes, namemaps, errCells, arrays, handed, derived,
                       tagVars, auxVars, funcVars>>

----------------------------------------------------------------------------
(* Shape (package tensorflow): the possibly partially known shape of a    *)
(* tensor.  A []int64 is nil or holds its elements; index i of the source *)
(* is element i + 1 here.                                                 *)

MaxRank == 2        \* dimensions of the shapes the caller makes
MaxSize == 2        \* largest size of one dimension

\* the nil []int64 and make([]int64, ...) filled with elems
NilDims == [nil |-> TRUE, elems |-> << >>]
MakeDims(elems) == [nil |-> FALSE, elems |-> elems]

\* Shape{}: the zero value, a shape of unknown rank
ZeroShape == [dims |-> NilDims]

ScalarShape == [dims |-> MakeDims(<< >>)]

\* MakeShape(shape...): a copy of the sizes given
MakeShape(shape) == [dims |-> MakeDims([i \in 1..Len(shape) |-> shape[i]])]

NumDimensions(s) == IF s.dims.nil THEN -1 ELSE Len(s.dims.elems)

\* s.dims[dim]: the element, or the run-time panic of an index out of range
IndexDims(s, dim) ==
    IF dim >= 0 /\ dim < Len(s.dims.elems)
    THEN [outcome |-> "return", value |-> s.dims.elems[dim + 1]]
    ELSE [outcome |-> "panic", value |-> "index out of range"]

\* s.Size(dim)
Size(s, dim) ==
    LET rel == IF dim < 0 THEN dim + NumDimensions(s) ELSE dim
    IN  IF dim < 0 /\ Len(s.dims.elems) = 0
        THEN [outcome |-> "return", value |-> 0]
        ELSE IF rel >= NumDimensions(s)
             THEN [outcome |-> "return", value |-> -1]
             ELSE IndexDims(s, rel)

\* s.IsFullySpecified()
IsFullySpecified(s) ==
    IF s.dims.nil THEN FALSE
    ELSE ~ \E i \in 1..Len(s.dims.elems) : s.dims.elems[i] <= 1

\* the record of a call on a value: the receiver, the argument, the result
CalledOn(call, on, arg, result) ==
    [call |-> call, on |-> on, arg |-> arg,
     outcome |-> result.outcome, value |-> result.value]

Returned(value) == [outcome |-> "return", value |-> value]

\* the shapes a caller can hold
SizeLists == UNION {[1..n -> -1..MaxSize] : n \in 0..MaxRank}
Shapes == {ZeroShape, ScalarShape} \cup {MakeShape(l) : l \in SizeLists}

\* the dim arguments: every dimension, from either end, and one beyond
Dims == (-(MaxRank + 1))..MaxRank

\* the caller asks the shape it holds
Inspecting ==
    /\ held.kind = "Shape"
    /\ \/ ret' = CalledOn("NumDimensions", held.shape, 0,
                          Returned(NumDimensions(held.shape)))
       \/ \E dim \in Dims :
            ret' = CalledOn("Size", held.shape, dim, Size(held.shape, dim))
       \/ ret' = CalledOn("IsFullySpecified", held.shape, 0,
                          Returned(IsFullySpecified(held.shape)))
    /\ UNCHANGED <<graphs, scopes, namemaps, errCells, arrays, handed, derived,
                   tagVars, funcVars, stack, auxVars>>

InitShape ==
    /\ NewScope
    /\ \E s \in Shapes : held = [kind |-> "Shape", shape |-> s]
    /\ files = NoFiles
    /\ worker = workerObj
    /\ procs = NoProcs

----------------------------------------------------------------------------
(* DataType (package tensorflow): the type of one element of a tensor;    *)
(* the values are those of the runtime's TF_DataType.                     *)

Float == 1
Double == 2
Int32 == 3
Uint32 == 22
Uint8 == 4
Int16 == 5
Int8 == 6
DtString == 7
Complex64 == 8
Complex == 8
Int64 == 9
Uint64 == 23
Bool == 10
Qint8 == 11
Quint8 == 12
Qint32 == 13
Bfloat16 == 14
Qint16 == 15
Quint16 == 16
Uint16 == 17
Complex128 == 18
Half == 19
Float8e5m2 == 24
Float8e4m3fn == 25
Resource == 20
Variant == 21

\* the constants of the package
DataTypes ==
    {Float, Double, Int32, Uint32, Uint8, Int16, Int8, DtString, Complex64,
     Complex, Int64, Uint64, Bool, Qint8, Quint8, Qint32, Bfloat16, Qint16,
     Quint16, Uint16, Complex128, Half, Float8e5m2, Float8e4m3fn, Resource,
     Variant}

\* the map from a data type to its tensorflow name
dtype2name ==
    Double :> "double" @@ Float :> "float" @@ Half :> "half" @@
    Bfloat16 :> "bfloat16" @@ Float8e5m2 :> "f8e5m2" @@ Float8e4m3fn :> "f8e4m3fn" @@
    Int64 :> "int64" @@ Int32 :> "int32" @@ Int16 :> "int16" @@
    Int8 :> "int8" @@ Uint64 :> "int64" @@ Uint32 :> "uint32" @@
    Uint16 :> "uint16" @@ Uint8 :> "uint8" @@ Qint32 :> "quint32" @@
    Qint16 :> "qint16" @@ Qint8 :> "qint8" @@ Quint16 :> "quint16" @@
    Quint8 :> "quint8" @@ Bool :> "bool" @@ Complex128 :> "complex128" @@
    Complex64 :> "complex64" @@ Variant :> "variant" @@ Resource :> "resource"

\* the map from a data type to the size in bytes of one element
dtype2bytesize ==
    Double :> 8 @@ Float :> 4 @@ Half :> 2 @@
    Bfloat16 :> 2 @@ Float8e5m2 :> 1 @@ Float8e4m3fn :> 1 @@
    Int64 :> 8 @@ Int32 :> 4 @@ Int16 :> 2 @@
    Int8 :> 1 @@ Uint64 :> 8 @@ Uint32 :> 4 @@
    Uint16 :> 2 @@ Uint8 :> 1 @@ Qint32 :> 4 @@
    Qint16 :> 2 @@ Qint8 :> 1 @@ Quint16 :> 2 @@
    Quint8 :> 1 @@ Bool :> 1 @@ Complex128 :> 16 @@
    Complex64 :> 8

\* dtype.String(): the name in the table, or a panic
String(dtype) ==
    IF dtype \in DOMAIN dtype2name
    THEN [outcome |-> "return", value |-> dtype2name[dtype]]
    ELSE [outcome |-> "panic", value |-> "unkown name for dtype"]

\* dtype.byteSize(): the size in the table, or a panic
byteSize(dtype) ==
    IF dtype \in DOMAIN dtype2bytesize
    THEN [outcome |-> "return", value |-> dtype2bytesize[dtype]]
    ELSE [outcome |-> "panic", value |-> "unknown bytesize for dtype"]

\* the caller asks for the name or the element size of a data type it holds
Naming ==
    /\ held.kind = "DataTypes"
    /\ \E i \in 1..Len(held.dtypes) :
         \/ ret' = CalledOn("String", held.dtypes[i], i, String(held.dtypes[i]))
         \/ ret' = CalledOn("byteSize", held.dtypes[i], i, byteSize(held.dtypes[i]))
    /\ UNCHANGED <<graphs, scopes, namemaps, errCells, arrays, handed, derived,
                   tagVars, funcVars, stack, auxVars>>

\* the caller holds two data types
InitDtype ==
    /\ NewScope
    /\ \E a, b \in DataTypes : held = [kind |-> "DataTypes", dtypes |-> <<a, b>>]
    /\ files = NoFiles
    /\ worker = workerObj
    /\ procs = NoProcs

----------------------------------------------------------------------------
(* Saved models (package tensorflow): listing the tags and signatures of  *)
(* a model exported to a directory.  files maps a path to what the file   *)
(* holds: bytes that parse as a SavedModel (its meta-graphs), or not.     *)

MaxMetaGraphs == 2      \* meta-graphs of one saved model

\* a file whose bytes are no SavedModel message, and one that holds model
Garbage == [parses |-> FALSE, metaGraphs |-> << >>]
SavedModelFile(metaGraphs) == [parses |-> TRUE, metaGraphs |-> metaGraphs]

\* os.ReadFile(path): the bytes of the file, or an error when there is none
ReadFile(path) ==
    IF path \in DOMAIN files
    THEN [buf |-> files[path], err |-> NoErr]
    ELSE [buf |-> Garbage, err |-> NewErr("open: no such file or directory", "")]

\* proto.Unmarshal(buf, model): the message, or an error
Unmarshal(buf) ==
    IF buf.parses
    THEN [model |-> buf.metaGraphs, err |-> NoErr]
    ELSE [model |-> << >>, err |-> NewErr("proto: cannot parse invalid wire-format data", "")]

\* loadSavedModelProto(path)
loadSavedModelProto(path) ==
    LET read == ReadFile(path)
    IN  IF read.err = NoErr
        THEN Unmarshal(read.buf)
        ELSE [model |-> << >>, err |-> read.err]

\* generateSignatures(pb): one Signature per name
generateSignatures(pb) == [name \in pb |-> [def |-> name]]

\* filepath.Join(dir, name)
Join(dir, name) == dir \o "/" \o name

\* ListSavedModelDetails(exportDir): the err tested by the if statement is a
\* variable declared by that statement, so the result err is never assigned
ListSavedModelDetails(exportDir) ==
    LET path == Join(exportDir, "saved_model.pb")
        loaded == loadSavedModelProto(path)
        ms == loaded.model
    IN  IF loaded.err = NoErr
        THEN [tags |-> [i \in 1..Len(ms) |-> ms[i].tags],
              signatures |-> [i \in 1..Len(ms) |-> generateSignatures(ms[i].signatureDef)],
              err |-> NoErr]
        ELSE [tags |-> << >>, signatures |-> << >>, err |-> NoErr]

\* the meta-graphs and the models a directory can hold
TagLists == {<< >>, <<"serve">>, <<"serve", "gpu">>}
SignatureNames == {"serving_default", "regress_x_to_y"}
MetaGraphs == [tags : TagLists, signatureDef : SUBSET SignatureNames]
SavedModels == UNION {[1..n -> MetaGraphs] : n \in 0..MaxMetaGraphs}
ExportDirs == {"model", "nowhere"}

\* the caller lists the details of a directory
Listing ==
    /\ held.kind = "SavedModel"
    /\ \E exportDir \in ExportDirs :
         ret' = [call |-> "ListSavedModelDetails", on |-> exportDir,
                 outcome |-> "return", value |-> ListSavedModelDetails(exportDir)]
    /\ UNCHANGED <<graphs, scopes, namemaps, errCells, arrays, handed, derived,
                   tagVars, funcVars, stack, auxVars>>

\* the directory "model" holds a saved_model.pb, "nowhere" does not exist
InitSaved ==
    /\ NewScope
    /\ held = [kind |-> "SavedModel"]
    /\ \E f \in {Garbage} \cup {SavedModelFile(m) : m \in SavedModels} :
         files = (Join("model", "saved_model.pb") :> f)
    /\ worker = workerObj
    /\ procs = NoProcs

----------------------------------------------------------------------------
(* The operation wrappers of package op: the generated ones, and Func.    *)

\* a generated wrapper of an operation type: it returns its zero value at
\* once when the scope holds an error, and adds the operation otherwise
tmplOp(s, type, verdict) ==
    IF Err(s) # NoErr
    THEN /\ ret' = Called(type, s, "return", Nil, 0, NoErr, 0, NoErr)
         /\ UNCHANGED <<graphs, scopes, namemaps, errCells, arrays, handed, derived,
                        tagVars, auxVars, funcVars>>
    ELSE AddOperation(s, type, "", << >>, verdict)

\* Func(scope, fn, inputs...) for a function whose Name() is name: the
\* operation of that type is added; nil is returned when the scope holds an
\* error afterwards
Func(s, name, verdict) == AddOperation(s, name, "", << >>, verdict)

----------------------------------------------------------------------------
(* The cast worker (package tensorflow): CastTensor converts a tensor     *)
(* with a graph, a session and a cache of cast operations shared by all   *)
(* callers.  A goroutine takes one step per statement that reads or       *)
(* writes the worker; a *Session is identified by the graph it was made   *)
(* from, an *Operation by its graph and its position in it.               *)

MaxCasts == 3       \* CastTensor calls of one run

\* the nil *Operation, and the operation at position op of graph g
NoOperation == [graph |-> 0, op |-> 0]
OperationOf(g, op) == [graph |-> g, op |-> op]

\* opPair{}
opPair == [inp |-> NoOperation, out |-> NoOperation]

\* dtypePair{inp, out}
dtypePair(inp, out) == <<inp, out>>

\* a tensor of a data type, and the tensor a session run fetches for it
TensorOf(dtype) == [dtype |-> dtype, castFrom |-> 0]
Fetched(dtype, inp) == [dtype |-> dtype, castFrom |-> inp.dtype]
NoTensor == [dtype |-> 0, castFrom |-> 0]

\* fmt.Sprintf("castInp_%d_%d", ...) and fmt.Sprintf("castOut_%d_%d", ...)
castInpName(castKey) == "castInp_" \o ToString(castKey[1]) \o "_" \o ToString(castKey[2])
castOutName(castKey) == "castOut_" \o ToString(castKey[1]) \o "_" \o ToString(castKey[2])

\* the OpSpec of the worker's Const and Cast operations
WorkerOpSpec(type, name) ==
    [type |-> type, name |-> name, controlDependencies |-> << >>, device |-> ""]

\* a goroutine outside CastTensor, after calls calls; stored: the cache
\* keys its calls have written
Idle(calls, stored) ==
    [pc |-> "idle", dtype |-> 0, inp |-> NoTensor, castKey |-> dtypePair(0, 0),
     castOps |-> opPair, calls |-> calls, stored |-> stored]

\* the record of a finished CastTensor call: what it was given, what it
\* returned, and the session and operations it ran, if it ran
CalledCast(p, f, outcome, out, err, session) ==
    [call |-> "CastTensor", proc |-> p, dtype |-> f.dtype, inp |-> f.inp,
     outcome |-> outcome, out |-> out, err |-> err, session |-> session,
     castOps |-> f.castOps]

\* the number of CastTensor calls made so far
RECURSIVE CastsMade(_)
CastsMade(ps) == IF ps = << >> THEN 0 ELSE Head(ps).calls + CastsMade(Tail(ps))

\* CastTensor returns: the goroutine is outside the function again
CastReturns(p, f, outcome, out, err, session) ==
    /\ procs' = [procs EXCEPT ![p] = Idle(f.calls, f.stored)]
    /\ ret' = CalledCast(p, f, outcome, out, err, session)

\* goroutine p calls CastTensor(dtype, inp): the short circuit of a tensor
\* that has the data type already, or the call is on its way
CastTensor(p, dtype, inp) ==
    LET f == [procs[p] EXCEPT !.dtype = dtype, !.inp = inp, !.calls = @ + 1]
    IN  /\ procs[p].pc = "idle"
        /\ CastsMade(procs) < MaxCasts
        /\ IF inp.dtype = dtype
           THEN CastReturns(p, f, "return", inp, NoErr, 0)
           ELSE /\ procs' = [procs EXCEPT ![p] = [f EXCEPT !.pc = "ensure"]]
                /\ UNCHANGED ret
        /\ UNCHANGED <<graphs, scopes, namemaps, errCells, arrays, handed, derived,
                       tagVars, funcVars, stack, held, files, worker>>

\* the next statement of goroutine p in CastTensor; verdict is what the
\* runtime answers if the statement calls it
CastTensorStep(p, verdict) ==
    LET f == procs[p]
        g == worker.graph
        goto(pc) == procs' = [procs EXCEPT ![p].pc = pc]
        unchanged == UNCHANGED <<scopes, namemaps, errCells, arrays, handed, derived,
                                 tagVars, funcVars, stack, held, files>>
    IN  /\ f.pc \notin {"idle"}
        /\ unchanged
        /\ CASE f.pc = "ensure" ->
                  \* if worker.session == nil
                  /\ goto(IF worker.session = 0 THEN "NewGraph" ELSE "lookup")
                  /\ UNCHANGED <<graphs, worker, ret>>
             [] f.pc = "NewGraph" ->
                  \* worker.graph = NewGraph()
                  /\ graphs' = Append(graphs, << >>)
                  /\ worker' = [worker EXCEPT !.graph = Len(graphs) + 1]
                  /\ goto("castMap")
                  /\ UNCHANGED ret
             [] f.pc = "castMap" ->
                  \* worker.castMap = map[dtypePair]opPair{}
                  /\ worker' = [worker EXCEPT !.castMap = << >>]
                  /\ goto("lookup")
                  /\ UNCHANGED <<graphs, ret>>
             [] f.pc = "lookup" ->
                  \* castOps, ok := worker.castMap[castKey]
                  LET castKey == dtypePair(f.inp.dtype, f.dtype)
                      ok == castKey \in DOMAIN worker.castMap
                  IN  /\ procs' = [procs EXCEPT ![p] =
                            [f EXCEPT !.castKey = castKey,
                                      !.castOps = IF ok THEN worker.castMap[castKey]
                                                  ELSE opPair,
                                      !.pc = IF ok THEN "Run" ELSE "Const"]]
                      /\ UNCHANGED <<graphs, worker, ret>>
             [] f.pc = "Const" ->
                  \* castOps.inp, err = worker.graph.AddOperation(Const ...)
                  LET r == GraphAddOperation(graphs[g],
                                WorkerOpSpec("Const", castInpName(f.castKey)), verdict)
                  IN  /\ graphs' = [graphs EXCEPT ![g] = r.graph]
                      /\ IF r.err # NoErr
                         THEN CastReturns(p, f, "return", NoTensor, r.err, 0)
                         ELSE /\ procs' = [procs EXCEPT ![p] =
                                    [f EXCEPT !.castOps.inp = OperationOf(g, r.op),
                                              !.pc = "Cast"]]
                              /\ UNCHANGED ret
                      /\ UNCHANGED worker
             [] f.pc = "Cast" ->
                  \* castOps.out, err = worker.graph.AddOperation(Cast ...)
                  LET r == GraphAddOperation(graphs[g],
                                WorkerOpSpec("Cast", castOutName(f.castKey)), verdict)
                  IN  /\ graphs' = [graphs EXCEPT ![g] = r.graph]
                      /\ IF r.err # NoErr
                         THEN CastReturns(p, f, "return", NoTensor, r.err, 0)
                         ELSE /\ procs' = [procs EXCEPT ![p] =
                                    [f EXCEPT !.castOps.out = OperationOf(g, r.op),
                                              !.pc = "store"]]
                              /\ UNCHANGED ret
                      /\ UNCHANGED worker
             [] f.pc = "store" ->
                  \* worker.castMap[castKey] = castOps
                  /\ worker' = [worker EXCEPT !.castMap =
                                    (f.castKey :> f.castOps) @@ @]
                  /\ procs' = [procs EXCEPT ![p] =
                        [f EXCEPT !.stored = @ \cup {f.castKey}, !.pc = "NewSession"]]
                  /\ UNCHANGED <<graphs, ret>>
             [] f.pc = "NewSession" ->
                  \* worker.session, err = NewSession(worker.graph, nil)
                  /\ worker' = [worker EXCEPT !.session =
                                    IF verdict = NoErr THEN g ELSE 0]
                  /\ IF verdict # NoErr
                     THEN CastReturns(p, f, "return", NoTensor, verdict, 0)
                     ELSE goto("Run") /\ UNCHANGED ret
                  /\ UNCHANGED graphs
             [] f.pc = "Run" ->
                  \* fetches, err := worker.session.Run(...)
                  /\ IF worker.session = 0
                     THEN CastReturns(p, f, "panic", NoTensor,
                            NewErr("invalid memory address or nil pointer dereference", ""), 0)
                     ELSE IF verdict # NoErr
                     THEN CastReturns(p, f, "return", NoTensor, verdict, worker.session)
                     ELSE CastReturns(p, f, "return", Fetched(f.dtype, f.inp), NoErr,
                                      worker.session)
                  /\ UNCHANGED <<graphs, worker>>

----------------------------------------------------------------------------
(* Safetensors (package tensorflow): writing named tensors to a buffer    *)
(* and loading them back.  A tensor is its data type and its shape; the   *)
(* buffer holds the 8-byte header length, the JSON header (its text and   *)
(* the items the text spells) and the data of the tensors, in order.      *)

MaxNames == 2       \* length of the names argument of WriteSafeTensors

\* the names of the tensors, in alphabetic order
TensorNames == <<"a", "b">>

\* the map from a data type to its safetensors name, and back (init())
dtype2safe ==
    Bool :> "BOOL" @@
    Double :> "F64" @@ Float :> "F32" @@ Half :> "F16" @@ Bfloat16 :> "BF16" @@
    Int64 :> "I64" @@ Int32 :> "I32" @@ Int16 :> "I16" @@ Int8 :> "I8" @@
    Uint64 :> "U64" @@ Uint32 :> "U32" @@ Uint16 :> "U16" @@ Uint8 :> "U8"

safe2dtype ==
    [v \in {dtype2safe[k] : k \in DOMAIN dtype2safe} |->
        CHOOSE k \in DOMAIN dtype2safe : dtype2safe[k] = v]

\* numElements(shape): the product of the sizes
RECURSIVE numElements(_)
numElements(shape) ==
    IF shape = << >> THEN 1 ELSE Head(shape) * numElements(Tail(shape))

\* sort.Strings of a set of names, and the keys of a map in that order
SortStrings(S) == SelectSeq(TensorNames, LAMBDA n : n \in S)

\* safeTensorItem{DType, Shape, Offsets}
safeTensorItem(dtype, shape, offsets) ==
    [DType |-> dtype, Shape |-> shape, Offsets |-> offsets]

\* the loop of WriteSafeTensors that fills safeDict: the error of the first
\* name without tensor or with an unsupported data type, or the dictionary
RECURSIVE PrepareDict(_, _, _, _)
PrepareDict(dict, names, offset, safeDict) ==
    IF names = << >> THEN [err |-> NoErr, safeDict |-> safeDict]
    ELSE LET name == Head(names)
         IN  IF name \notin DOMAIN dict
             THEN [err |-> NewErr("tensor " \o name \o " not found for writing as save tensor", ""),
                   safeDict |-> safeDict]
             ELSE IF dict[name].dtype \notin DOMAIN dtype2safe
             THEN [err |-> NewErr("dtype is not supported for safe tensor " \o name, ""),
                   safeDict |-> safeDict]
             ELSE LET t == dict[name]
                      numBytes == dtype2bytesize[t.dtype] * numElements(t.shape.elems)
                      item == safeTensorItem(dtype2safe[t.dtype], t.shape,
                                             <<offset, offset + numBytes>>)
                  IN  PrepareDict(dict, Tail(names), offset + numBytes,
                                  (name :> item) @@ safeDict)

\* the JSON text of a []int64 and of a dictionary entry
RECURSIVE JoinNumbers(_)
JoinNumbers(l) ==
    IF l = << >> THEN ""
    ELSE IF Len(l) = 1 THEN ToString(Head(l))
    ELSE ToString(Head(l)) \o "," \o JoinNumbers(Tail(l))

MarshalSlice(sl) == IF sl.nil THEN "null" ELSE "[" \o JoinNumbers(sl.elems) \o "]"

MarshalItem(name, item) ==
    "\"" \o name \o "\":{\"DType\":\"" \o item.DType \o "\",\"Shape\":"
        \o MarshalSlice(item.Shape) \o ",\"data_offsets\":["
        \o JoinNumbers(item.Offsets) \o "]}"

RECURSIVE JoinItems(_, _)
JoinItems(keys, safeDict) ==
    IF keys = << >> THEN ""
    ELSE IF Len(keys) = 1 THEN MarshalItem(Head(keys), safeDict[Head(keys)])
    ELSE MarshalItem(Head(keys), safeDict[Head(keys)]) \o ","
            \o JoinItems(Tail(keys), safeDict)

\* json.Marshal(&safeDict): the entries in the order of their keys
Marshal(safeDict) == "{" \o JoinItems(SortStrings(DOMAIN safeDict), safeDict) \o "}"

\* what the text spells: the entries a decoder reads, in order
Spelled(safeDict) ==
    LET keys == SortStrings(DOMAIN safeDict)
    IN  [i \in 1..Len(keys) |-> [name |-> keys[i], item |-> safeDict[keys[i]]]]

\* a length that is not rounded
jsonOfsUnaligned(len) == len

\* (len + 7) & -8: the length rounded up to 8 bytes
jsonOfs(len) == ((len + 7) \div 8) * 8

\* n spaces
RECURSIVE Spaces(_)
Spaces(n) == IF n <= 0 THEN "" ELSE " " \o Spaces(n - 1)

\* the bytes WriteSafeTensors writes: the header length, the header padded
\* with spaces to that length, and the data of each name in turn
Written(dict, names, safeDict) ==
    LET jsonDict == Marshal(safeDict)
        ofs == jsonOfs(Len(jsonDict))
    IN  [baseOfs |-> ofs,
         header |-> jsonDict \o Spaces(ofs - Len(jsonDict)),
         items |-> Spelled(safeDict),
         data |-> [i \in 1..Len(names) |->
                     [name |-> names[i],
                      numBytes |-> dtype2bytesize[dict[names[i]].dtype]
                                    * numElements(dict[names[i]].shape.elems)]]]

\* the names WriteSafeTensors goes by: all, in alphabetic order, by default
NamesToWrite(dict, names) ==
    IF names.nil THEN SortStrings(DOMAIN dict) ELSE names.elems

\* WriteSafeTensors(wr, dict, names) with a bytes.Buffer as wr
WriteSafeTensors(wr, dict, names) ==
    LET given == NamesToWrite(dict, names)
        prepared == PrepareDict(dict, given, 0, << >>)
    IN  /\ IF prepared.err # NoErr
           THEN UNCHANGED files
           ELSE files' = (wr :> Written(dict, given, prepared.safeDict)) @@ files
        /\ ret' = CalledOn("WriteSafeTensors", wr, names, Returned(prepared.err))
        /\ UNCHANGED <<graphs, scopes, namemaps, errCells, arrays, handed, derived,
                       tagVars, funcVars, stack, held, worker, procs>>

\* the orders sort.Slice can leave the names in: every order of the keys in
\* which the offsets do not decrease (the keys come out of a map)
SortedByOffset(dict) ==
    {names \in [1..Cardinality(DOMAIN dict) -> DOMAIN dict] :
        /\ \A i, j \in DOMAIN names : i # j => names[i] # names[j]
        /\ \A i, j \in DOMAIN names :
             i < j => dict[names[i]].Offsets[1] <= dict[names[j]].Offsets[1]}

\* no loader
NoLoader == [nil |-> TRUE, dict |-> << >>, names |-> << >>]

\* the dictionary decoded from the header, the offsets moved by base
Decoded(items, base) ==
    [name \in {items[i].name : i \in 1..Len(items)} |->
        LET item == (CHOOSE i \in 1..Len(items) : items[i].name = name)
            it == items[item].item
        IN  safeTensorItem(it.DType, it.Shape,
                           <<it.Offsets[1] + base, it.Offsets[2] + base>>)]

\* NewSafeTensorLoader(rd) on the bytes of buffer rd
NewSafeTensorLoader(rd) ==
    /\ IF rd \notin DOMAIN files
       THEN /\ held' = [held EXCEPT !.loader = NoLoader]
            /\ ret' = CalledOn("NewSafeTensorLoader", rd, 0, Returned(NewErr("EOF", "")))
       ELSE LET dict == Decoded(files[rd].items, files[rd].baseOfs + 8)
            IN  \E names \in SortedByOffset(dict) :
                    /\ held' = [held EXCEPT !.loader =
                                    [nil |-> FALSE, dict |-> dict, names |-> names]]
                    /\ ret' = CalledOn("NewSafeTensorLoader", rd, 0, Returned(NoErr))
    /\ UNCHANGED <<graphs, scopes, namemaps, errCells, arrays, handed, derived,
                   tagVars, funcVars, stack, files, worker, procs>>

\* loader.Names()
Names(loader) == loader.names

\* loader.Info(name): the data type and the shape, or a panic
Info(loader, name) ==
    IF name \notin DOMAIN loader.dict
    THEN [outcome |-> "panic", value |-> "safe tensor name not found"]
    ELSE IF loader.dict[name].DType \notin DOMAIN safe2dtype
    THEN [outcome |-> "panic", value |-> "unknown dtype"]
    ELSE Returned(<<safe2dtype[loader.dict[name].DType],
                    MakeShape(loader.dict[name].Shape.elems)>>)

\* the tensors, dictionaries and names arguments the caller uses
TensorShapes == {NilDims, MakeDims(<< >>), MakeDims(<<2>>), MakeDims(<<0>>)}
Tensors == [dtype : {Float, Bool, Complex64}, shape : TensorShapes]
TensorDicts == [{"a"} -> Tensors] \cup [{"a", "b"} -> Tensors]
NameLists ==
    {NilDims} \cup
        {MakeDims(l) : l \in UNION {[1..n -> {"a", "b"}] : n \in 0..MaxNames}}

\* the caller writes its tensors, loads them and asks the loader
Storing ==
    /\ held.kind = "SafeTensors"
    /\ \/ WriteSafeTensors("writeBuf", held.dict, held.names)
       \/ NewSafeTensorLoader("writeBuf")
       \/ /\ ~ held.loader.nil
          /\ \/ ret' = CalledOn("Names", held.loader, 0, Returned(Names(held.loader)))
             \/ \E name \in {"a", "b"} :
                  ret' = CalledOn("Info", held.loader, name, Info(held.loader, name))
          /\ UNCHANGED <<graphs, scopes, namemaps, errCells, arrays, handed, derived,
                         tagVars, funcVars, stack, auxVars>>

InitSafe ==
    /\ NewScope
    /\ \E dict \in TensorDicts, names \in NameLists :
         held = [kind |-> "SafeTensors", dict |-> dict, names |-> names,
                 loader |-> NoLoader]
    /\ files = NoFiles
    /\ worker = workerObj
    /\ procs = NoProcs

----------------------------------------------------------------------------
(* The caller.  A workload W names the argument values the caller uses;    *)
(* it makes its calls on every scope that exists.                          *)

ScopeIds == 1..Len(scopes)

\* a call of the caller itself: no helper is running, and none starts
CallerActs == stack.pc # "running" /\ UNCHANGED stack

\* tf.OpSpec{Type: type, Name: name}
OpSpec(type, name) == [type |-> type, name |-> name]

\* the operation the caller writes into its slice: the newest of the graph
Held(g) == IF Len(g) = 0 THEN {} ELSE {Len(g)}

\* OpSpec.ControlDependencies of a call: none, or the newest operation
OwnDeps(W, g) ==
    {<< >>} \cup (IF W.ownDeps /\ Len(g) > 0 THEN {<< Len(g) >>} ELSE {})

\* building the graph: adding operations and deriving scopes
Building(W) ==
    \/ \E s \in ScopeIds, args \in W.opSpecs, verdict \in W.verdicts :
        \E own \in OwnDeps(W, graphs[scopes[s].graph]) :
            AddOperation(s, args.type, args.name, own, verdict) /\ CallerActs
    \/ \E s \in ScopeIds, namespace \in W.namespaces :
        SubScope(s, namespace) /\ CallerActs
    \/ \E s \in ScopeIds, n \in W.depCounts :
        WithControlDependencies(s, n) /\ CallerActs
    \/ \E s \in ScopeIds, device \in W.devices :
        WithDevice(s, device) /\ CallerActs

\* reporting errors and closing the tree
Closing(W) ==
    \/ \E s \in ScopeIds, op \in W.failedOps, e \in Verdicts \ {NoErr} :
        UpdateErr(s, op, e) /\ CallerActs
    \/ \E s \in ScopeIds : Finalize(s) /\ CallerActs

\* tagging the variable just created and asking for the tagged values
Tagging(W) ==
    \/ \E s \in ScopeIds, tags \in W.tagLists :
        \E o \in Held(graphs[scopes[s].graph]) :
            tagVariable(s, Output(o), tags) /\ CallerActs
    \/ \E s \in ScopeIds, tags \in W.askedLists :
        GetParams(s, tags) /\ CallerActs

\* building an optimizer for the tagged values
Optimizing(W) ==
    \/ \E s \in ScopeIds, tags \in W.askedLists :
        mustGetParams(s, tags) /\ CallerActs
    \/ \E s \in ScopeIds, tags \in W.askedLists : OptimizerSGD(s, tags)
    \/ \E verdict \in W.verdicts : OptimizerSGDStep(verdict)

\* adding weight decay to reference optimizers over the trainable
\* parameters of the scope, all or one of them
Decaying(W) ==
    \/ \E s \in ScopeIds :
        \E ref \in {GetParamsOf(s, <<TagTrainable>>)}
                    \cup {<<p>> : p \in Members(GetParamsOf(s, <<TagTrainable>>))} :
            WeightDecay(s, ref)
    \/ \E verdict \in W.verdicts : WeightDecayStep(verdict)

\* the functions the caller holds and has not deleted
Live == {f \in 1..Len(funcs) : funcs[f].live}

\* n outputs of the newest operation of g
OutputsOf(g, n) == [i \in 1..n |-> Output(Len(g))]

\* the first n of the output names the caller uses
OutNames(n) == SubSeq(<<"y1", "y2">>, 1, n)

\* capturing graphs as functions and handling the functions
Capturing(W) ==
    \/ NewGraph /\ CallerActs
    \/ \E g \in 1..Len(graphs), name \in W.funcNames, sig \in W.signatures,
          verdict \in W.verdicts :
        /\ sig.ins + sig.outs > 0 => Len(graphs[g]) > 0
        /\ AsFunc(g, name, OutputsOf(graphs[g], sig.ins),
                  OutputsOf(graphs[g], sig.outs), OutNames(sig.names),
                  "TestFunc1", verdict)
        /\ CallerActs
    \/ \E fn \in Live : Name(fn) /\ CallerActs
    \/ \E fn \in Live : Delete(fn) /\ CallerActs
    \/ \E g \in 1..Len(graphs), verdict \in W.verdicts :
        Functions(g, verdict) /\ CallerActs

\* copying functions into graphs
Registering(W) ==
    \/ \E g \in 1..Len(graphs), fn \in Live \cup {0}, grad \in Live \cup {0},
          verdict \in W.verdicts :
        GraphRegisterFunc(g, fn, grad, verdict) /\ CallerActs
    \/ \E s \in ScopeIds, fn \in Live \cup {0}, grad \in Live \cup {0},
          verdict \in W.verdicts :
        ScopeRegisterFunc(s, fn, grad, verdict) /\ CallerActs

\* exporting functions to new writers and importing what writers hold
Exchanging(W) ==
    \/ \E fn \in Live, w \in W.writers, verdict \in W.verdicts :
        WriteTo(fn, w, verdict) /\ CallerActs
    \/ \E proto \in {writers[i].data : i \in 1..Len(writers)} \cup {<< >>},
          verdict \in W.verdicts :
        ImportFunc(proto, verdict) /\ CallerActs

\* building functions from go functions; the go functions add operations,
\* some recover from a panic, some finalize their scope
Tracing(W) ==
    \/ \E name \in W.funcNames, dtypes \in W.dtypeLists : BuildFunc(name, dtypes)
    \/ \E verdict \in W.verdicts : BuildFuncStep(verdict)
    \/ \E args \in W.opSpecs, verdict \in W.verdicts, recovers \in BOOLEAN :
        GoFuncAdds(args.type, verdict, recovers)
    \/ GoFuncFinalizes
    \/ \E sig \in W.signatures :
        /\ stack.fn = "BuildFunc"
        /\ sig.outs > 0 => Len(graphs[scopes[stack.s].graph]) > 0
        /\ GoFuncReturns(OutputsOf(graphs[scopes[stack.s].graph], sig.outs),
                         OutNames(sig.names), "just playing")

\* setting attributes of functions and writing them out
Attributing(W) ==
    \/ \E fn \in Live, a \in AttrNames, proto \in W.attrValues,
          verdict \in W.verdicts :
        SetAttrFrom(fn, a, proto, verdict) /\ CallerActs
    \/ \E fn \in Live, a \in AttrNames, w \in W.writers, verdict \in W.verdicts :
        WriteAttrTo(fn, a, w, verdict) /\ CallerActs

\* adding operations through the scopes
Adding(W) ==
    \E s \in ScopeIds, args \in W.opSpecs, verdict \in W.verdicts :
        AddOperation(s, args.type, args.name, << >>, verdict) /\ CallerActs

\* the caller writing to the slices it passed
Aliasing ==
    \E i \in 1..MaxDeps, v \in Held(graphs[1]) :
        CallerModifiesOps(i, v) /\ CallerActs

\* errors and finalization: few names, every way to fail
ErrWorkload ==
    [opSpecs |-> {OpSpec("Add", "")}, namespaces |-> {"x"},
     devices |-> {"/device:GPU:0"}, ownDeps |-> FALSE, depCounts |-> {0},
     verdicts |-> Verdicts, failedOps |-> {"RegisterFunc"}]

\* naming: every type, name and namespace
NameWorkload ==
    [opSpecs |-> {OpSpec("Add", ""), OpSpec("x", ""), OpSpec("Add", "x_1")},
     namespaces |-> Namespaces,
     devices |-> {"/device:GPU:0"}, ownDeps |-> FALSE, depCounts |-> {0},
     verdicts |-> {NoErr}, failedOps |-> {"RegisterFunc"}]

\* control dependencies and devices
DepsWorkload ==
    [opSpecs |-> {OpSpec("Add", "")}, namespaces |-> {"x"},
     devices |-> Devices, ownDeps |-> TRUE, depCounts |-> 1..MaxDeps,
     verdicts |-> {NoErr}, failedOps |-> {"RegisterFunc"}]

\* the tag registry: variables created and tagged through the whole tree
TagWorkload ==
    [opSpecs |-> {OpSpec("VariableV2", "")}, namespaces |-> {"x"},
     devices |-> {"/device:GPU:0"}, ownDeps |-> FALSE, depCounts |-> {0},
     verdicts |-> {NoErr}, failedOps |-> {"RegisterFunc"},
     tagLists |-> {<<TagTrainable>>, <<TagDecayL2>>, <<TagTrainable, TagDecayL2>>},
     askedLists |-> {<< >>, <<TagTrainable, TagDecayL2>>,
                     <<TagDecayL2, TagTrainable>>}]

\* optimizers: one variable, tagged or not, and a runtime that can fail
OptimizerWorkload ==
    [opSpecs |-> {OpSpec("VariableV2", "")}, namespaces |-> {"x"},
     devices |-> {"/device:GPU:0"}, ownDeps |-> FALSE, depCounts |-> {0},
     verdicts |-> Verdicts, failedOps |-> {"RegisterFunc"},
     tagLists |-> {<<TagTrainable>>, <<TagDecayL2>>},
     askedLists |-> {<< >>, <<TagDecayL2>>}]

\* functions: captured from the scope's graph, copied into it and into
\* another graph, with a runtime that can fail
FuncWorkload ==
    [opSpecs |-> {OpSpec("Add", "")}, verdicts |-> Verdicts,
     funcNames |-> {"funcOne"},
     signatures |-> {[ins |-> 0, outs |-> 0, names |-> 0],
                     [ins |-> 1, outs |-> 1, names |-> 1],
                     [ins |-> 1, outs |-> 2, names |-> 0],
                     [ins |-> 1, outs |-> 1, names |-> 2]}]

\* export and import: functions with and without arguments, a bytes.Buffer
\* and writers that run out of room, and a runtime that can fail
ExchangeWorkload ==
    [opSpecs |-> {OpSpec("Add", "")}, verdicts |-> Verdicts,
     funcNames |-> {"xFunc"},
     signatures |-> {[ins |-> 0, outs |-> 0, names |-> 0],
                     [ins |-> 1, outs |-> 1, names |-> 1]},
     writers |-> {[limited |-> FALSE, room |-> 0],
                  [limited |-> TRUE, room |-> 0],
                  [limited |-> TRUE, room |-> 2]}]

\* BuildFunc: without and with arguments of different dtypes, go functions
\* with and without named outputs, and a runtime that can fail
BuildWorkload ==
    [opSpecs |-> {OpSpec("Add", "")}, verdicts |-> Verdicts,
     funcNames |-> {"func1"},
     dtypeLists |-> {<< >>, <<"Float", "Int32">>},
     signatures |-> {[outs |-> 0, names |-> 0],
                     [outs |-> 1, names |-> 1],
                     [outs |-> 1, names |-> 2]}]

\* attributes: an empty and a non-empty value, a bytes.Buffer and a writer
\* that runs out of room, and a runtime that can fail
AttrWorkload ==
    [verdicts |-> Verdicts, funcNames |-> {"negFunc"},
     signatures |-> {[ins |-> 0, outs |-> 0, names |-> 0]},
     attrValues |-> {<< >>, <<"b", "1">>},
     writers |-> {[limited |-> FALSE, room |-> 0],
                  [limited |-> TRUE, room |-> 1]}]

\* the state after a model of one or two variables was built on a new scope
InitDecay ==
    \E layers \in Layerings :
        LET n == Len(layers)
        IN  /\ graphs = << [i \in 1..n |-> VariableSpec(i)] >>
            /\ scopes = << NewScopeValue(1, 1, 1, 1) >>
            /\ namemaps = << [EmptyNameMap EXCEPT !["VariableV2"] = n] >>
            /\ errCells = << NoErr >>
            /\ arrays = << NewArray("caller", [i \in 1..MaxDeps |-> Nil]) >>
            /\ handed = [i \in 1..n |->
                            [scope |-> 1, auto |-> TRUE, ownDeps |-> << >>,
                             spec |-> VariableSpec(i), err |-> NoErr]]
            /\ derived = << Derivation("NewScope", 0, "", << >>, "") >>
            /\ tagmaps = << TagMapOf(EmptyTagMap, layers, 1) >>
            /\ tagged = TaggedBy(layers, 1)
            /\ ret = [call |-> "tagVariable",
                      on |-> [err |-> 1, graph |-> 1, root |-> TRUE],
                      outcome |-> "return", tags |-> layers[n], params |-> << >>,
                      panicValue |-> NoErr]
            /\ funcs = << >>
            /\ libs = << << >> >>
            /\ rtlog = << >>
            /\ writers = << >>
            /\ stack = [fn |-> "Linear", pc |-> "returned",
                        made |-> n + Len(TaggedBy(layers, 1)), helpers |-> n]
            /\ NothingElse

\* weight decay: a runtime that can fail
DecayWorkload == [verdicts |-> Verdicts]

Next == Building(ErrWorkload) \/ Closing(ErrWorkload)
NextNames == Building(NameWorkload)
NextDeps == Building(DepsWorkload) \/ Aliasing
NextTags == Building(TagWorkload) \/ Tagging(TagWorkload)
NextFuncs ==
    \/ Adding(FuncWorkload)
    \/ Capturing(FuncWorkload)
    \/ Registering(FuncWorkload)
NextExchange ==
    \/ Adding(ExchangeWorkload)
    \/ Capturing(ExchangeWorkload)
    \/ Exchanging(ExchangeWorkload)
NextBuild ==
    \/ Adding([BuildWorkload EXCEPT !.verdicts = {NoErr}])
    \/ Tracing(BuildWorkload)
NextAttrs ==
    \/ Capturing(AttrWorkload)
    \/ Attributing(AttrWorkload)
NextDecay == Decaying(DecayWorkload)
NextOptimizer ==
    \/ Building(OptimizerWorkload)
    \/ Tagging(OptimizerWorkload)
    \/ Optimizing(OptimizerWorkload)

Spec == Init /\ [][Next]_vars
SpecNames == Init /\ [][NextNames]_vars
SpecDeps == Init /\ [][NextDeps]_vars
SpecTags == Init /\ [][NextTags]_vars
SpecOptimizer == Init /\ [][NextOptimizer]_vars
SpecFuncs == Init /\ [][NextFuncs]_vars
SpecExchange == Init /\ [][NextExchange]_vars
SpecBuild == Init /\ [][NextBuild]_vars
SpecAttrs == Init /\ [][NextAttrs]_vars
SpecDecay == InitDecay /\ [][NextDecay]_vars

NextShape == Inspecting
SpecShape == InitShape /\ [][NextShape]_vars

NextDataType == Naming
SpecDtype == InitDtype /\ [][NextDataType]_vars

NextSaved == Listing
SpecSaved == InitSaved /\ [][NextSaved]_vars

\* the caller adds operations through the wrappers
Helping(W) ==
    \/ \E s \in ScopeIds, verdict \in W.verdicts :
        Const(s, verdict) /\ CallerActs
    \/ \E s \in ScopeIds, type \in W.types, verdict \in W.verdicts :
        tmplOp(s, type, verdict) /\ CallerActs
    \/ \E s \in ScopeIds, name \in W.funcNames, verdict \in W.verdicts :
        Func(s, name, verdict) /\ CallerActs

\* wrappers of two operation types and a function named "x", on a runtime
\* that can fail
HelperWorkload ==
    [types |-> {"Add", "Mul"}, funcNames |-> {"x"}, verdicts |-> Verdicts,
     namespaces |-> {"x"}]

NextHelpers ==
    \/ Helping(HelperWorkload)
    \/ \E s \in ScopeIds, namespace \in HelperWorkload.namespaces :
        SubScope(s, namespace) /\ CallerActs
SpecHelpers == Init /\ [][NextHelpers]_vars

\* the goroutines calling CastTensor
Casting(W) ==
    \/ \E p \in 1..Len(procs), dtype \in W.dtypes, inp \in W.tensors :
        /\ W.concurrent \/ \A q \in 1..Len(procs) : procs[q].pc = "idle"
        /\ CastTensor(p, dtype, inp)
    \/ \E p \in 1..Len(procs), verdict \in W.verdicts :
        CastTensorStep(p, verdict)

\* one caller at a time, and a runtime that can fail
CastWorkload ==
    [dtypes |-> {Int8, Double, Float}, tensors |-> {TensorOf(Int8)},
     verdicts |-> Verdicts, concurrent |-> FALSE, goroutines |-> 1]

\* two goroutines calling at the same time, and a runtime that does not fail
RaceWorkload ==
    [dtypes |-> {Int8, Double, Float}, tensors |-> {TensorOf(Int8)},
     verdicts |-> {NoErr}, concurrent |-> TRUE, goroutines |-> 2]

\* the program start: the worker's zero value and goroutines about to call
InitCast(W) ==
    /\ NewScope
    /\ held = NoValue
    /\ files = NoFiles
    /\ worker = workerObj
    /\ procs = [p \in 1..W.goroutines |-> Idle(0, {})]

InitCastWorker == InitCast(CastWorkload)
InitCastRace == InitCast(RaceWorkload)
NextCast == Casting(CastWorkload)
NextRace == Casting(RaceWorkload)
SpecCast == InitCastWorker /\ [][NextCast]_vars
SpecRace == InitCastRace /\ [][NextRace]_vars

NextSafe == Storing
SpecSafe == InitSafe /\ [][NextSafe]_vars

----------------------------------------------------------------------------
(* Properties of the error cell (checked under Spec). *)

\* the error cell of the scope the call of a step is made on
CellOfCall == ret'.on.err

\* C1: once the error cell of a tree holds an error, an AddOperation call
\* on any scope of the tree returns nil, hands nothing to the graph, adds
\* no operation and leaves every error cell as it was.
C1_StickyPoisoning ==
    [][(ret'.call = "AddOperation" /\ errCells[CellOfCall] # NoErr)
         => /\ ret'.outcome = "return"
            /\ ret'.op = Nil
            /\ UNCHANGED <<graphs, handed, errCells, namemaps>>]_vars

\* C1 witness: a derived scope of a tree poisoned by a rejected operation
\* was asked to add an operation and returned nil.
C1_Witness ==
    /\ ret.call = "AddOperation"
    /\ ret.outcome = "return"
    /\ ret.op = Nil
    /\ ~ret.on.root
    /\ errCells[ret.on.err] # NoErr
    /\ errCells[ret.on.err] # FinalizedErr
    /\ Len(handed) > 0
    /\ derived[handed[Len(handed)].scope].kind = "SubScope"

\* C2: when the graph rejects the operation of an AddOperation call made on
\* an error-free tree, the call panics, the panic value is the error now in
\* the cell, that error is the runtime's error wrapped with the operation
\* type; and no call ever changes an error a cell already holds.
C2_FailFast ==
    /\ [][(/\ ret'.call = "AddOperation"
           /\ Len(handed') = Len(handed) + 1
           /\ handed'[Len(handed')].err # NoErr
           /\ errCells[CellOfCall] = NoErr)
            => /\ ret'.outcome = "panic"
               /\ ret'.panicValue = errCells'[CellOfCall]
               /\ errCells'[CellOfCall] # NoErr
               /\ errCells'[CellOfCall] =
                    AddOperationErr(handed'[Len(handed')].spec.type,
                                    handed'[Len(handed')].err)
               /\ errCells'[CellOfCall].wraps = handed'[Len(handed')].err.msg]_vars
    /\ [][\A c \in 1..Len(errCells) :
            errCells[c] # NoErr => errCells'[c] = errCells[c]]_vars
    /\ [][(ret'.call = "AddOperation" /\ ret'.outcome = "return" /\ ret'.op # Nil)
            => (/\ Len(handed') = Len(handed) + 1
                /\ handed'[Len(handed')].err = NoErr)]_vars

\* C2 witness: an AddOperation on a derived scope panicked with the error it
\* recorded, and a later UpdateErr with another operation type left it.
C2_Witness ==
    /\ ret.call = "UpdateErr"
    /\ Len(handed) > 0
    /\ handed[Len(handed)].err # NoErr
    /\ handed[Len(handed)].scope # 1
    /\ ~ret.on.root
    /\ errCells[ret.on.err] = AddOperationErr(handed[Len(handed)].spec.type,
                                              handed[Len(handed)].err)
    /\ ret.panicValue = errCells[ret.on.err]

\* the errors AddOperation and UpdateErr can record for the runtime's verdicts
ConstructionErrs ==
    {AddOperationErr(t, v) : t \in Types \cup {"RegisterFunc"}, v \in Verdicts \ {NoErr}}
      \cup {AddOperationErr(handed[i].spec.type, handed[i].err) :
                i \in {j \in 1..Len(handed) : handed[j].err # NoErr}}

\* C3: Finalize returns the graph only from an error-free tree and closes the
\* tree by doing so, so that at most one Finalize per tree returns it; on a
\* closed tree it returns no graph and the finalized error, which is no
\* construction error; on a tree with a construction error it returns that.
C3_FinalizeOnce ==
    [][ret'.call = "Finalize"
         => /\ ret'.outcome = "return"
            /\ errCells[CellOfCall] = NoErr
                => /\ ret'.graph = ret'.on.graph
                   /\ ret'.graph # 0
                   /\ ret'.err = NoErr
                   /\ errCells'[CellOfCall] # NoErr
                   /\ errCells'[CellOfCall] \notin ConstructionErrs
                   /\ errCells'[CellOfCall].wraps = ""
            /\ errCells[CellOfCall] # NoErr
                => /\ ret'.graph = 0
                   /\ ret'.err = errCells[CellOfCall]
                   /\ errCells' = errCells
            /\ (errCells[CellOfCall] # NoErr /\ errCells[CellOfCall] \notin ConstructionErrs)
                => ret'.err = FinalizedErr
            /\ UNCHANGED <<graphs, handed>>]_vars

\* C3 witness: a Finalize on a derived scope after the tree was finalized
\* through another scope: no graph, the finalized error.
C3_Witness ==
    /\ ret.call = "Finalize"
    /\ ret.graph = 0
    /\ ret.err = FinalizedErr
    /\ ~ret.on.root
    /\ Len(graphs[1]) > 0

\* C4: after a successful Finalize an AddOperation call on a scope of the
\* tree fails loudly (it panics) instead of returning nil.
C4_WriteAfterFinalizeIsFatal ==
    (ret.call = "AddOperation" /\ errCells[ret.on.err] = FinalizedErr)
        => ret.outcome = "panic"

----------------------------------------------------------------------------
(* Properties of the names (checked under SpecNames). *)

\* the auto-named OpSpecs handed to the graph
AutoNamed == {i \in 1..Len(handed) : handed[i].auto}

\* the name table the i-th handed OpSpec was named with
NamemapOf(i) == scopes[handed[i].scope].namemap

\* C5: no two auto-named operations handed to the graph have the same full
\* name, whatever scopes of the tree they were added through.
C5_UniqueNames ==
    \A i, j \in AutoNamed :
        i # j => handed[i].spec.name # handed[j].spec.name

\* C5 witness: three auto-named operations of one type, two through the same
\* name table and one through the name table of a sub-scope.
C5_Witness ==
    \E i, j, k \in AutoNamed :
        /\ i < j
        /\ handed[i].spec.type = handed[j].spec.type
        /\ handed[i].spec.type = handed[k].spec.type
        /\ NamemapOf(i) = NamemapOf(j)
        /\ NamemapOf(i) # NamemapOf(k)

\* the auto-named additions of the type of the i-th OpSpec made up to it
\* through scopes that share its name table
AutoAdditions(i) ==
    {j \in AutoNamed : /\ j <= i
                       /\ handed[j].spec.type = handed[i].spec.type
                       /\ NamemapOf(j) = NamemapOf(i)}

\* C6: an auto-named operation is named "<Type>_<n>" (in the namespace of
\* its scope), n being the number of auto-named additions of that Type made
\* so far through the scopes sharing the name table, whatever else was called.
C6_AutoNamingCounter ==
    \A i \in AutoNamed :
        handed[i].spec.name =
            InNamespace(scopes[handed[i].scope].namespace,
                        handed[i].spec.type \o "_"
                            \o ToString(Cardinality(AutoAdditions(i))))

\* the scopes made by SubScope
SubScopes == {s \in ScopeIds : derived[s].kind = "SubScope"}

\* "<name>_<k>" in the namespace ns, without a leading "/" for the empty ns
Disambiguated(ns, name, k) ==
    IF ns = "" THEN name \o "_" \o ToString(k)
    ELSE ns \o "/" \o name \o "_" \o ToString(k)

\* C7: the sub-scopes made from scopes that share a name table have pairwise
\* different namespaces, each the parent's namespace joined by "/" with the
\* proposed name and a number.
C7_DistinctSiblings ==
    /\ \A s, t \in SubScopes :
          (/\ s # t
           /\ scopes[derived[s].parent].namemap = scopes[derived[t].parent].namemap)
            => scopes[s].namespace # scopes[t].namespace
    /\ \A s \in SubScopes :
          \E k \in 0..MaxCalls :
              scopes[s].namespace =
                  Disambiguated(scopes[derived[s].parent].namespace,
                                derived[s].name, k)

\* C7 witness: three sub-scopes proposed under one name, made from a scope
\* and from a derivative sharing its name table, one of them nested.
C7_Witness ==
    \E s, t \in SubScopes :
        /\ s # t
        /\ derived[s].name = derived[t].name
        /\ derived[s].parent # derived[t].parent
        /\ scopes[derived[s].parent].namemap = scopes[derived[t].parent].namemap
        /\ \E u \in SubScopes : derived[u].parent = s

\* the name table a step works on: that of the scope that handed an OpSpec
\* to the graph, or of the receiver of SubScope; 0 for any other step
ActingNamemap ==
    IF Len(handed') > Len(handed)
    THEN scopes[handed'[Len(handed')].scope].namemap
    ELSE IF Len(scopes') > Len(scopes) /\ derived'[Len(derived')].kind = "SubScope"
    THEN scopes[derived'[Len(derived')].parent].namemap
    ELSE 0

\* C8: a sub-scope starts with an empty name table no earlier scope uses,
\* WithControlDependencies and WithDevice derivatives use the name table of
\* their receiver, and a call changes no name table but its receiver's.
C8_CounterIsolation ==
    /\ [](\A s \in ScopeIds :
            /\ derived[s].kind \in {"WithControlDependencies", "WithDevice"}
                => scopes[s].namemap = scopes[derived[s].parent].namemap
            /\ derived[s].kind = "SubScope"
                => \A t \in 1..(s - 1) : scopes[t].namemap # scopes[s].namemap)
    /\ [][(Len(scopes') > Len(scopes) /\ derived'[Len(derived')].kind = "SubScope")
            => namemaps'[scopes'[Len(scopes')].namemap] = EmptyNameMap]_vars
    /\ [][\A m \in 1..Len(namemaps) :
            namemaps'[m] # namemaps[m] => m = ActingNamemap]_vars

\* C8 witness: an operation auto-named in a sub-scope, and then the first
\* operation of that type in its parent, named with the parent's own count.
C8_Witness ==
    \E i, j \in AutoNamed :
        /\ i < j
        /\ handed[i].spec.type = handed[j].spec.type
        /\ derived[handed[i].scope].kind = "SubScope"
        /\ derived[handed[i].scope].parent = handed[j].scope
        /\ namemaps[NamemapOf(i)][handed[i].spec.type] = 1
        /\ namemaps[NamemapOf(j)][handed[j].spec.type] = 1
        /\ \E s \in ScopeIds :
              /\ derived[s].kind = "WithDevice"
              /\ scopes[s].namemap = NamemapOf(i)

----------------------------------------------------------------------------
(* Properties of control dependencies and devices (checked under SpecDeps). *)

\* the control dependencies scope s shows now
DepsOf(s) == Elems(arrays, scopes[s].controlDependencies)

\* the scopes made by WithControlDependencies
DepScopes == {s \in ScopeIds : derived[s].kind = "WithControlDependencies"}

\* C9: the list of a WithControlDependencies scope is its parent's list
\* followed by ops, in an array of its own (not the caller's, not its
\* parent's, not another derivation's), and no step - another derivation or
\* the caller writing to its slice - changes the list of any scope.
C9_FreshControlDependencies ==
    /\ [](\A s \in DepScopes :
            /\ DepsOf(s) = DepsOf(derived[s].parent) \o derived[s].ops
            /\ scopes[s].controlDependencies.arr # 0
            /\ arrays[scopes[s].controlDependencies.arr].owner = "scope"
            /\ scopes[s].controlDependencies.arr
                  # scopes[derived[s].parent].controlDependencies.arr
            /\ \A t \in DepScopes \ {s} :
                  scopes[t].controlDependencies.arr
                      # scopes[s].controlDependencies.arr)
    /\ [][\A s \in ScopeIds :
            Elems(arrays', scopes'[s].controlDependencies) = DepsOf(s)]_vars

\* C9 witness: two derivations from one scope with different ops, the second
\* built on the first's result, after the caller rewrote the slice it passed.
C9_Witness ==
    \E s, t \in DepScopes :
        /\ s < t
        /\ derived[t].parent = s
        /\ Len(derived[s].ops) > 0
        /\ derived[s].ops # derived[t].ops
        /\ derived[t].ops # SubSeq(arrays[1].elems, 1, Len(derived[t].ops))
        /\ Len(DepsOf(t)) = Len(derived[s].ops) + Len(derived[t].ops)

RECURSIVE PathDeps(_), PathDevice(_)

\* the operations given to the WithControlDependencies calls on the path
\* from the root to s, in order
PathDeps(s) ==
    IF derived[s].parent = 0 THEN << >>
    ELSE PathDeps(derived[s].parent) \o derived[s].ops

\* the device given to the last WithDevice call on the path from the root to s
PathDevice(s) ==
    IF derived[s].parent = 0 THEN ""
    ELSE IF derived[s].kind = "WithDevice" THEN derived[s].device
    ELSE PathDevice(derived[s].parent)

\* C10: an operation added through scope s reaches the graph with the
\* OpSpec's own control dependencies followed by those of the path to s, and
\* with the device of the last WithDevice on that path.
C10_Propagation ==
    \A i \in 1..Len(handed) :
        /\ handed[i].spec.controlDependencies
              = handed[i].ownDeps \o PathDeps(handed[i].scope)
        /\ handed[i].spec.device = PathDevice(handed[i].scope)
        /\ handed[i].err = NoErr
              => \E o \in 1..Len(graphs[1]) : graphs[1][o] = handed[i].spec

\* C10 witness: an operation with a dependency of its own, added through a
\* scope reached by WithDevice and WithControlDependencies, in the graph.
C10_Witness ==
    \E i \in 1..Len(handed) :
        /\ Len(handed[i].ownDeps) = 1
        /\ Len(PathDeps(handed[i].scope)) >= 1
        /\ handed[i].spec.device # ""
        /\ derived[handed[i].scope].kind # "WithDevice"
        /\ handed[i].err = NoErr

----------------------------------------------------------------------------
(* Properties of the tag registry (checked under SpecTags). *)

\* the values tagged with t, in the order they were tagged
RECURSIVE TaggedWith(_, _)
TaggedWith(log, t) ==
    IF log = << >> THEN << >>
    ELSE (IF Head(log).tag = t THEN << Head(log).x >> ELSE << >>)
             \o TaggedWith(Tail(log), t)

\* for each tag of the list in turn, the values tagged with it
RECURSIVE TaggedWithEach(_, _)
TaggedWithEach(log, tags) ==
    IF tags = << >> THEN << >>
    ELSE TaggedWith(log, Head(tags)) \o TaggedWithEach(log, Tail(tags))

\* the tag lists a caller can ask for: up to two tags, repeats included
AskedLists ==
    {<< >>} \cup {<<t>> : t \in VarTags} \cup {<<t, u>> : t, u \in VarTags}

\* C11: GetParams(t1..tk) on any scope of the tree returns, for each
\* requested tag in the order requested, every value tagged with it through
\* any scope of the tree, in the order of tagging; a value with several
\* requested tags appears once per tag, and GetParams() is
\* GetParams(TagTrainable).
C11_SharedOrderedRegistry ==
    /\ \A s \in ScopeIds :
        /\ \A tags \in AskedLists \ {<< >>} :
            GetParamsOf(s, tags) = TaggedWithEach(tagged, tags)
        /\ GetParamsOf(s, << >>) = TaggedWith(tagged, TagTrainable)
    /\ ret.call = "GetParams" =>
        ret.params = TaggedWithEach(tagged,
            IF ret.tags = << >> THEN <<TagTrainable>> ELSE ret.tags)

\* C11 witness: a value tagged twice through one scope is returned twice,
\* once per requested tag, by GetParams on a derived scope
C11_Witness ==
    /\ ret.call = "GetParams"
    /\ ~ret.on.root
    /\ ret.tags = <<TagDecayL2, TagTrainable>>
    /\ Len(ret.params) = 2
    /\ ret.params[1] = ret.params[2]
    /\ \A i \in 1..Len(tagged) : tagged[i].on.root

----------------------------------------------------------------------------
(* Properties of mustGetParams and OptimizerSGD (checked under             *)
(* SpecOptimizer).                                                         *)

\* the values recorded under the tags a call asks for
RecordedFor(tags) ==
    TaggedWithEach(tagged, IF tags = << >> THEN <<TagTrainable>> ELSE tags)

\* C12: mustGetParams panics exactly when no value is recorded under any
\* requested tag (TagTrainable when none is given) and otherwise returns the
\* list GetParams returns; the panic leaves the error cell as it was, and
\* an OptimizerSGD whose mustGetParams panics adds no operation, then or
\* later.
C12_MustGetParamsFailsLoudly ==
    [][/\ ret'.call = "mustGetParams" =>
            /\ ret'.outcome = (IF RecordedFor(ret'.tags) = << >> THEN "panic"
                               ELSE "return")
            /\ ret'.outcome = "panic" => ~ret'.panicValue.nil
            /\ ret'.outcome = "return" =>
                /\ ret'.params = RecordedFor(ret'.tags)
                /\ \A s \in ScopeIds : ret'.params = GetParamsOf(s, ret'.tags)
            /\ UNCHANGED <<errCells, graphs, handed>>
       /\ ret'.call = "OptimizerSGD" =>
            /\ ret'.outcome = (IF RecordedFor(ret'.tags) = << >> THEN "panic"
                               ELSE "running")
            /\ ret'.outcome = "panic" =>
                /\ ~ret'.panicValue.nil
                /\ stack'.pc = "panicked"
                /\ UNCHANGED <<errCells, graphs, handed>>
       /\ (stack.fn = "OptimizerSGD" /\ stack.pc = "panicked") =>
            (stack' = stack \/ ret'.call = "OptimizerSGD")]_vars

\* C12 witness: OptimizerSGD panicked on a scope whose tree holds an
\* operation and a value tagged otherwise, with no error recorded
C12_Witness ==
    /\ ret.call = "OptimizerSGD"
    /\ ret.outcome = "panic"
    /\ ret.tags = << >>
    /\ tagged # << >>
    /\ Len(graphs[1]) > 0
    /\ errCells[1] = NoErr

----------------------------------------------------------------------------
(* Properties of functions (checked under SpecFuncs). *)

\* the status the runtime set in the call this step made, NoErr without one
StatusOfCall == IF rtlog' = rtlog THEN NoErr ELSE rtlog'[Len(rtlog')].err

\* C13: when copying a function into a scope's graph fails
\* (Scope.RegisterFunc, a nil function included), the failure is returned to
\* the caller as an error value and the shared error cell is left as it
\* was, so that later AddOperation calls still proceed.
C13_RegistrationFailureReturned ==
    [][(ret'.call = "Scope.RegisterFunc" /\ ~ret'.value.nil) =>
            /\ ret'.outcome = "return"
            /\ ~ret'.err.nil
            /\ errCells' = errCells]_vars

\* C14: when the runtime fails to turn the graph into a function, AsFunc
\* returns a nil function and a non-nil error and does not panic.
C14_CaptureFailureReturned ==
    [][(ret'.call = "AsFunc" /\ ~StatusOfCall.nil) =>
            /\ ret'.outcome = "return"
            /\ ret'.fn = 0
            /\ ~ret'.err.nil]_vars

\* C15: Graph.RegisterFunc with a nil function returns a non-nil error and
\* leaves the function table of the graph as it was, whatever the gradient
\* is; with a function and a nil gradient it returns what the runtime
\* reports, so that the copy the runtime accepts is in the table and is no
\* error.
C15_NilFunctionRejected ==
    [][ret'.call = "Graph.RegisterFunc" =>
            /\ ret'.outcome = "return"
            /\ ret'.args.fn = 0 =>
                /\ ~ret'.err.nil
                /\ UNCHANGED <<libs, funcs, rtlog>>
            /\ (ret'.args.fn # 0 /\ ret'.args.grad = 0) =>
                /\ Len(rtlog') = Len(rtlog) + 1
                /\ ret'.err = StatusOfCall
                /\ ret'.err.nil =>
                    \E i \in 1..Len(libs'[ret'.args.g]) :
                        libs'[ret'.args.g][i] = funcs[ret'.args.fn].def]_vars

\* C15 witness: a nil function with a gradient was refused by a graph that
\* had accepted a function without gradient
C15_Witness ==
    /\ ret.call = "Graph.RegisterFunc"
    /\ ret.args.fn = 0
    /\ ret.args.grad # 0
    /\ ~ret.err.nil
    /\ Len(libs[ret.args.g]) = 1
    /\ \E i \in 1..Len(rtlog) :
        /\ rtlog[i].api = "TF_GraphCopyFunction"
        /\ rtlog[i].args.grad = 0
        /\ rtlog[i].err.nil

\* C16: AsFunc with a non-empty outNames whose length differs from the
\* number of outputs returns an error that reports both numbers, makes no
\* function and does not call the runtime; with no outNames the runtime is
\* called for any number of outputs and no such error is returned.
C16_OutputNamesCounted ==
    [][ret'.call = "AsFunc" =>
            LET numOuts  == Len(ret'.args.outputs)
                numNames == Len(ret'.args.outNames)
            IN  /\ (numNames # 0 /\ numNames # numOuts) =>
                    /\ ret'.outcome = "return"
                    /\ ret'.fn = 0
                    /\ ret'.err.msg = "mismatch of outputs and their names: "
                            \o ToString(numOuts) \o " vs " \o ToString(numNames)
                    /\ UNCHANGED <<funcs, rtlog, libs>>
                /\ numNames = 0 =>
                    /\ Len(rtlog') = Len(rtlog) + 1
                    /\ rtlog'[Len(rtlog')].api = "TF_GraphToFunction"
                    /\ ret'.outcome = "return" => ret'.err.nil /\ ret'.fn # 0]_vars

\* C16 witness: two names for one output were refused after a capture of
\* two outputs without names had succeeded
C16_Witness ==
    /\ ret.call = "AsFunc"
    /\ Len(ret.args.outputs) = 1
    /\ Len(ret.args.outNames) = 2
    /\ ~ret.err.nil
    /\ \E f \in 1..Len(funcs) :
        Len(funcs[f].def.outputs) = 2 /\ funcs[f].def.outNames = << >>

\* the names of the definitions in a function table
NamesIn(lib) == {lib[i].name : i \in 1..Len(lib)}

\* the runtime calls in log that copied into g: the places in the log
CopiesInto(log, g) ==
    {i \in 1..Len(log) : /\ log[i].api = "TF_GraphCopyFunction"
                         /\ log[i].args.g = g
                         /\ log[i].err.nil}

\* the functions that copy i of log put into its graph
CopiedBy(log, i) == {log[i].args.fn, log[i].args.grad} \ {0}

\* the names of the functions in a list of functions
NamesOf(fs, list) == {fs[list[j]].def.name : j \in 1..Len(list)}

\* every graph holds, under its name, every function ever copied into it
RegistrationsKept ==
    \A g \in 1..Len(graphs) : \A i \in CopiesInto(rtlog, g) :
        \A fn \in CopiedBy(rtlog, i) : funcs[fn].def.name \in NamesIn(libs[g])

Captured ==
    {f \in 1..Len(funcs) : rtlog[funcs[f].made].api = "TF_GraphToFunction"}

\* the name AsFunc was asked to give to the function f it made
RequestedName(f) == rtlog[funcs[f].made].args.name

\* the name the runtime gives to f when it appends the hash of the body
HashedName(f) ==
    RequestedName(f) \o "_"
        \o HashOf(funcs[f].def.nodes, funcs[f].def.inputs, funcs[f].def.outputs)

----------------------------------------------------------------------------
(* Properties of export and import (checked under SpecExchange). *)

\* the exports that succeeded: the places in writers
Exports == {i \in 1..Len(writers) : writers[i].err.nil}

\* the functions ImportFunc made of the bytes export i wrote
ImportedFrom(i) ==
    {f \in 1..Len(funcs) :
        /\ rtlog[funcs[f].made].api = "TF_FunctionImportFunctionDef"
        /\ rtlog[funcs[f].made].args.proto = writers[i].data}

\* the number of bytes the step wrote to its writer
BytesWritten ==
    IF writers' = writers THEN 0 ELSE Len(writers'[Len(writers')].data)

\* exporting a function imported from the bytes of an export writes those
\* bytes again
RoundTripStable ==
    \A i \in Exports : \A f \in ImportedFrom(i) : \A j \in Exports :
        writers[j].fn = f =>
            /\ writers[j].data = writers[i].data
            /\ writers[j].n = writers[i].n

\* C19: a function exported with WriteTo, imported from the bytes written
\* and exported again gives the same bytes; every WriteTo returns the number
\* of bytes it wrote to the writer; ImportFunc of an empty slice returns an
\* error and no function, and does not call the runtime.
C19_RoundTrip ==
    /\ []RoundTripStable
    /\ [][/\ ret'.call = "WriteTo" => ret'.value = BytesWritten
          /\ (ret'.call = "ImportFunc" /\ Len(ret'.args.proto) = 0) =>
                /\ ~ret'.err.nil
                /\ ret'.fn = 0
                /\ UNCHANGED <<funcs, rtlog>>]_vars

\* C19 witness: a function was exported, the bytes written were imported
\* as another function, and that function was exported
C19_Witness ==
    /\ \E i \in Exports : \E f \in ImportedFrom(i) : \E j \in Exports :
        /\ writers[j].fn = f
        /\ writers[i].fn # f
        /\ Len(writers[i].data) > 0
    /\ ret.call = "WriteTo"

----------------------------------------------------------------------------
(* Properties of BuildFunc (checked under SpecBuild). *)

\* a BuildFunc is in the stack: in progress, returned or left by a panic
InBuildFunc == stack.fn = "BuildFunc"

\* the graph of the private scope of the BuildFunc in the stack
PrivateGraph == scopes[stack.s].graph

\* once BuildFunc is past its placeholders the graph starts with one
\* placeholder per dtype, in the order of the dtypes, and phs holds their
\* outputs in that order; a BuildFunc that has returned has a finalized scope
PlaceholdersFirst ==
    InBuildFunc =>
        /\ stack.at \in {"goFunc", "Finalize", "AsFunc"} =>
            /\ Len(stack.phs) = Len(stack.dtypes)
            /\ Len(graphs[PrivateGraph]) >= Len(stack.dtypes)
            /\ \A i \in 1..Len(stack.dtypes) :
                /\ stack.phs[i].dtype = stack.dtypes[i]
                /\ stack.phs[i].out = Output(i)
                /\ graphs[PrivateGraph][i].type = "Placeholder"
        /\ stack.pc = "returned" => Err(stack.s) = FinalizedErr

\* the step starts a BuildFunc
BuildFuncStarts == ret'.call = "BuildFunc"

\* the step is one of a BuildFunc in progress
BuildFuncActs == InBuildFunc /\ stack.pc = "running" /\ stack' # stack

\* C18: BuildFunc works on a scope of its own with a new graph, name table
\* and error cell, and touches no other scope; goFunc is called when the
\* graph holds exactly one placeholder per dtype, in the order of the
\* dtypes; BuildFunc returns a function only from the capture of the
\* finalized scope's graph, with the outputs of those placeholders in that
\* order as inputs; an error in the cell when goFunc returns, a failed
\* Finalize and a failed capture make it panic, and a BuildFunc that panics
\* makes no function; after it has returned, its graph gets no operation.
C18_BuildFunc ==
    /\ []PlaceholdersFirst
    /\ [][/\ BuildFuncStarts =>
                LET sc == scopes'[stack'.s]
                IN  /\ stack'.s = Len(scopes) + 1
                    /\ sc.graph = Len(graphs) + 1
                    /\ graphs'[sc.graph] = << >>
                    /\ sc.namemap = Len(namemaps) + 1
                    /\ namemaps'[sc.namemap] = EmptyNameMap
                    /\ sc.err = Len(errCells) + 1
                    /\ errCells'[sc.err] = NoErr
                    /\ \A t \in 1..Len(scopes) : scopes'[t] = scopes[t]
                    /\ stack'.phs = << >>
          /\ ((BuildFuncStarts \/ (BuildFuncActs /\ stack.at = "Placeholder"))
                    /\ stack'.pc = "running" /\ stack'.at = "goFunc") =>
                Len(graphs'[scopes'[stack'.s].graph]) = Len(stack'.dtypes)
          /\ (BuildFuncActs /\ stack'.pc = "returned") =>
                /\ stack.at = "AsFunc"
                /\ Err(stack.s) = FinalizedErr
                /\ ret'.call = "AsFunc"
                /\ ret'.fn = Len(funcs')
                /\ ret'.fn # 0
                /\ ret'.err.nil
                /\ ret'.args.g = PrivateGraph
                /\ ret'.args.inputs = Inputs(stack.phs)
                /\ funcs'[ret'.fn].def.inputs = Inputs(stack.phs)
          /\ (BuildFuncActs /\ ret'.call = "goFunc" /\ Err(stack.s) # NoErr) =>
                stack'.pc = "panicked"
          /\ (BuildFuncActs /\ stack.at = "Finalize" /\ ~ret'.err.nil) =>
                stack'.pc = "panicked"
          /\ (BuildFuncActs /\ stack.at = "AsFunc"
                    /\ (~StatusOfCall.nil \/ ~ret'.err.nil)) =>
                stack'.pc = "panicked"
          /\ (BuildFuncActs /\ stack'.pc = "panicked") => funcs' = funcs
          /\ (InBuildFunc /\ stack.pc = "returned" /\ ~BuildFuncStarts) =>
                graphs'[PrivateGraph] = graphs[PrivateGraph]]_vars

\* C18 witness: a BuildFunc with two dtypes whose goFunc added an operation
\* has returned a function of two inputs, and an AddOperation on its scope
\* has come back since
C18_Witness ==
    /\ InBuildFunc
    /\ stack.pc = "returned"
    /\ Len(stack.dtypes) = 2
    /\ Len(graphs[PrivateGraph]) = 3
    /\ Len(funcs[Len(funcs)].def.inputs) = 2
    /\ ret.call = "AddOperation"
    /\ ret.on.graph = PrivateGraph

----------------------------------------------------------------------------
(* Properties of function attributes (checked under SpecAttrs). *)

\* the runtime call the step made, if it made one
CallOfStep == rtlog'[Len(rtlog')]

\* C21: SetAttrFrom calls the runtime's set once for every value, with the
\* length of the value, 0 for an empty one, and returns its status; an
\* empty value that is accepted replaces the attribute's value.  WriteAttrTo
\* returns a failure of the runtime's get as its error with count 0 and
\* leaves the writer alone; when the runtime hands back no bytes it writes
\* nothing and returns (0, nil); otherwise the writer gets the bytes.
C21_AttributeValues ==
    [][/\ ret'.call = "SetAttrFrom" =>
            /\ Len(rtlog') = Len(rtlog) + 1
            /\ CallOfStep.api = "TF_FunctionSetAttrValueProto"
            /\ CallOfStep.args.len = Len(ret'.args.proto)
            /\ ret'.err = CallOfStep.err
            /\ writers' = writers
            /\ ret'.err.nil =>
                funcs'[ret'.fn].attr[ret'.args.attrName] =
                    [present |-> TRUE, value |-> ret'.args.proto]
            /\ ~ret'.err.nil => funcs' = funcs
       /\ ret'.call = "WriteAttrTo" =>
            /\ Len(rtlog') = Len(rtlog) + 1
            /\ CallOfStep.api = "TF_FunctionGetAttrValueProto"
            /\ ~CallOfStep.err.nil =>
                /\ ret'.err = CallOfStep.err
                /\ ret'.value = 0
                /\ writers' = writers
            /\ (CallOfStep.err.nil /\ Len(CallOfStep.args.buf) = 0) =>
                /\ ret'.err.nil
                /\ ret'.value = 0
                /\ writers' = writers
            /\ (CallOfStep.err.nil /\ Len(CallOfStep.args.buf) > 0) =>
                /\ Len(writers') = Len(writers) + 1
                /\ ret'.value = Len(writers'[Len(writers')].data)]_vars

\* C21 witness: an attribute that held a value was set to the empty value,
\* and WriteAttrTo then wrote nothing and returned (0, nil)
C21_Witness ==
    /\ ret.call = "WriteAttrTo"
    /\ ret.err.nil
    /\ ret.value = 0
    /\ writers = << >>
    /\ \E i, j \in 1..Len(rtlog) :
        /\ i < j
        /\ rtlog[i].api = "TF_FunctionSetAttrValueProto"
        /\ rtlog[j].api = "TF_FunctionSetAttrValueProto"
        /\ rtlog[i].args.fn = ret.args.fn
        /\ rtlog[j].args.fn = ret.args.fn
        /\ rtlog[i].args.len > 0 /\ rtlog[i].err.nil
        /\ rtlog[j].args.len = 0 /\ rtlog[j].err.nil

----------------------------------------------------------------------------
(* Properties of WeightDecay (checked under SpecDecay). *)

\* the values registered under a decay tag, each once, in the order of
\* their first registration
RECURSIVE FirstRegistered(_, _)
FirstRegistered(log, seen) ==
    IF log = << >> THEN << >>
    ELSE IF Head(log).tag \in {TagDecayL1, TagDecayL2} /\ Head(log).x \notin seen
    THEN <<Head(log).x>> \o FirstRegistered(Tail(log), seen \cup {Head(log).x})
    ELSE FirstRegistered(Tail(log), seen)

\* C22: the parameter list WeightDecay builds is the decay-tagged
\* parameters of the reference optimizer, each once, in the order of their
\* first registration, whatever the run; update i applies gradient i to
\* parameter i of that list.
C22_DeterministicDecayOrder ==
    stack.fn = "WeightDecay" =>
        LET expected == InRef(FirstRegistered(tagged, {}), stack.ref)
        IN  /\ stack.params = expected
            /\ \A i \in 1..Len(stack.updates) :
                /\ stack.updates[i].param = expected[i]
                /\ stack.updates[i].gradient = stack.gradients[i]

----------------------------------------------------------------------------
(* Properties of Shape (checked under SpecShape). *)

\* the shape the last call was made on has a known rank and known sizes
SizesKnown(s) ==
    /\ ~ s.dims.nil
    /\ \A i \in 1..Len(s.dims.elems) : s.dims.elems[i] >= 0

\* C23: IsFullySpecified returns true exactly when the number of dimensions
\* is known and every dimension has a size of at least 0 (sizes -1, 0, 1 and
\* larger included): true for the scalar shape, false for the zero value.
C23_FullySpecified ==
    ret.call = "IsFullySpecified" =>
        /\ ret.outcome = "return"
        /\ ret.value = SizesKnown(ret.on)

\* the dimension Size(dim) addresses, counted from 1; 0 when there is none
Addressed(s, dim) ==
    LET rank == NumDimensions(s)
    IN  IF dim >= 0 /\ dim < rank THEN dim + 1
        ELSE IF dim < 0 /\ dim >= -rank THEN dim + rank + 1
        ELSE 0

\* C24: Size(dim) returns, for every shape and every dim, the size of the
\* dimension addressed (dim, or dim + rank when dim is negative) and -1 when
\* there is no such dimension (the scalar shape and the shape of unknown
\* rank included); it never indexes out of range.
C24_SizeIsTotal ==
    ret.call = "Size" =>
        /\ ret.outcome = "return"
        /\ ret.value = IF Addressed(ret.on, ret.arg) = 0 THEN -1
                       ELSE ret.on.dims.elems[Addressed(ret.on, ret.arg)]

----------------------------------------------------------------------------
(* Properties of DataType (checked under SpecDtype). *)

\* C25: String gives every data type of its table the name of that very
\* type: the name returned for one data type the caller holds is not the
\* name of the other, different, data type it holds.
C25_NamesTellTypesApart ==
    (ret.call = "String" /\ ret.outcome = "return") =>
        \A j \in 1..Len(held.dtypes) :
            (held.dtypes[j] # ret.on /\ held.dtypes[j] \in DOMAIN dtype2name)
                => String(held.dtypes[j]).value # ret.value

----------------------------------------------------------------------------
(* Properties of ListSavedModelDetails (checked under SpecSaved). *)

\* the saved_model.pb of the directory the last call listed
ListedPath == Join(ret.on, "saved_model.pb")

\* the file exists and holds a SavedModel message
Loadable(path) == path \in DOMAIN files /\ files[path].parses

\* C26: ListSavedModelDetails returns a non-nil error whenever saved_model.pb
\* cannot be read or parsed (never a success with empty results), and a nil
\* error with one tags entry and one signatures entry per meta-graph when
\* it can.
C26_UnreadableModelIsAnError ==
    ret.call = "ListSavedModelDetails" =>
        IF Loadable(ListedPath)
        THEN /\ ret.value.err = NoErr
             /\ Len(ret.value.tags) = Len(files[ListedPath].metaGraphs)
             /\ Len(ret.value.signatures) = Len(files[ListedPath].metaGraphs)
        ELSE ret.value.err # NoErr

----------------------------------------------------------------------------
(* Properties of the operation wrappers (checked under SpecHelpers). *)

\* the step is a call of a wrapper on a scope whose cell holds an error
WrapperOnPoisoned ==
    /\ ret'.call \in {"Const", "AddOperation"} \cup HelperWorkload.types
    /\ errCells[CellOfCall] # NoErr

\* C29: Const, the generated wrappers and Func are no-ops on a poisoned
\* scope: the call returns its zero value without panicking, adds no
\* operation to the graph and leaves the recorded error as it is.
C29_WrappersAreNoOpsWhenPoisoned ==
    [][WrapperOnPoisoned =>
            /\ ret'.outcome = "return"
            /\ ret'.op = Nil
            /\ UNCHANGED <<graphs, errCells, handed>>]_vars

----------------------------------------------------------------------------
(* Properties of the cast worker (checked under SpecCast and SpecRace). *)

\* the operations of the worker's graph
WorkerGraph == IF worker.graph = 0 THEN << >> ELSE graphs[worker.graph]

\* the worker's graph holds an operation of that name
Holds(name) == \E i \in 1..Len(WorkerGraph) : WorkerGraph[i].name = name

\* the dtype pairs the callers ask for
CastKeys ==
    {dtypePair(t.dtype, d) : t \in CastWorkload.tensors, d \in CastWorkload.dtypes}

\* no goroutine is inside CastTensor
Quiet == \A p \in 1..Len(procs) : procs[p].pc = "idle"

\* the rejection of an operation whose name the graph holds already
Leftover(name) == NewErr("Duplicate node name in graph: '" \o name \o "'", "")

\* C30: between CastTensor calls made one after the other, whatever step
\* failed, the worker's graph holds castInp_<i>_<o> and castOut_<i>_<o>
\* exactly when the cache holds an entry for (i, o), so no call is rejected
\* because of operations an earlier call left behind; a call whose input
\* has the requested data type returns the input itself.
C30_CacheMatchesGraph ==
    Quiet =>
        /\ \A k \in CastKeys :
             (Holds(castInpName(k)) /\ Holds(castOutName(k)))
                <=> k \in DOMAIN worker.castMap
        /\ ret.call = "CastTensor" =>
             /\ \A k \in CastKeys :
                  ret.err \notin {Leftover(castInpName(k)), Leftover(castOutName(k))}
             /\ ret.inp.dtype = ret.dtype =>
                  (ret.out = ret.inp /\ ret.err = NoErr /\ ret.session = 0)

\* C28: under any interleaving of concurrent CastTensor calls on a runtime
\* that does not fail, the worker's graph and cache are made at most once,
\* no cache entry a call has written is lost, and every call runs its cast
\* operations in a session made from the graph that holds them.
C28_SafeUnderConcurrentUse ==
    /\ Len(graphs) - 1 <= 1
    /\ \A p \in 1..Len(procs) :
         \A k \in procs[p].stored : k \in DOMAIN worker.castMap
    /\ ret.call = "CastTensor" =>
         /\ ret.outcome = "return"
         /\ ret.session # 0 =>
              (ret.castOps.inp.graph = ret.session /\ ret.castOps.out.graph = ret.session)

----------------------------------------------------------------------------
(* Properties of the safetensors round trip (checked under SpecSafe). *)

\* the names the caller's tensors were written by, in the order written
WrittenNames == NamesToWrite(held.dict, held.names)

\* the buffer holds what WriteSafeTensors wrote
BufferWritten == "writeBuf" \in DOMAIN files

\* the header entry of a name
HeaderItem(name) ==
    LET items == files["writeBuf"].items
    IN  items[CHOOSE i \in 1..Len(items) : items[i].name = name].item

\* the header is padded to a multiple of 8 bytes and its offsets follow the
\* written order without gaps, from 0
HeaderInOrder ==
    /\ files["writeBuf"].baseOfs % 8 = 0
    /\ Len(files["writeBuf"].header) = files["writeBuf"].baseOfs
    /\ \A i \in 1..Len(WrittenNames) :
         HeaderItem(WrittenNames[i]).Offsets[1] =
            IF i = 1 THEN 0 ELSE HeaderItem(WrittenNames[i - 1]).Offsets[2]

\* what the loader was asked last agrees with what was written
LoadedAsWritten ==
    /\ ret.call = "Names" => ret.value = WrittenNames
    /\ (ret.call = "Info" /\ \E i \in 1..Len(WrittenNames) : WrittenNames[i] = ret.arg) =>
         /\ ret.outcome = "return"
         /\ ret.value = <<held.dict[ret.arg].dtype,
                          MakeShape(held.dict[ret.arg].shape.elems)>>

EachWrittenOnceWithData ==
    /\ \A i, j \in 1..Len(WrittenNames) : i # j => WrittenNames[i] # WrittenNames[j]
    /\ \A i \in 1..Len(WrittenNames) :
         WrittenNames[i] \in DOMAIN held.dict =>
            numElements(held.dict[WrittenNames[i]].shape.elems) > 0

====
